---- MODULE Spec2Model ----
(***************************************************************************)
(* Model of the cross-chain messaging integration of zaunch:               *)
(*   - the Send Account Resolver (app/src/lib/send-helper.ts), with its    *)
(*     byte-level config decoders and PDA derivations;                     *)
(*   - the two-phase lock/bridge orchestrator (app/src/lib/bridge.ts)      *)
(*     running against a ledger that holds tickets and emits messages.     *)
(*                                                                         *)
(* An account identifier (PublicKey) is a sequence of 32 bytes.  A buffer  *)
(* is a sequence of bytes, indexed from 0 in the source and from 1 here.   *)
(***************************************************************************)
EXTENDS Integers, Sequences, FiniteSets, TLC

VARIABLES
    accounts,   \* the ledger: account identifier -> [exists, owner, data] (absent keys do not exist)
    scenario,   \* the records the configuration buffers on the ledger were written from
    call,       \* the getSendAccounts call: its position (pc), its locals and its result
    changes,    \* number of ledger changes made while getSendAccounts runs
    tickets,    \* the ledger: ticket PDA -> "Locked" | "Bridged" (absent keys do not exist)
    messages,   \* the ledger: ticket PDA -> number of cross-chain messages emitted for it
    attempts,   \* the bridge attempts of the clients
    buffer,     \* the input of a function of the client: the account data handed to a
                \* deserializer, or the token metadata handed to the payload builder
    decoded,    \* what the function returned or threw
    hook,       \* the call of useBridge().bridge that wraps a bridge attempt
    inits,      \* the calls of useBridge().initVault of the callers
    polling     \* the status polling of one ticket payment (useTicketGeneration)

resolverVars == <<call, changes>>
uiVars == <<hook, inits, polling>>
bridgeVars == <<tickets, messages, attempts, uiVars>>
decoderVars == <<buffer, decoded>>
vars == <<accounts, scenario, call, changes, tickets, messages, attempts, buffer, decoded,
          hook, inits, polling>>

-----------------------------------------------------------------------------
(* Bytes, buffers and public keys                                          *)

PUBLIC_KEY_LENGTH == 32

Min(a, b) == IF a < b THEN a ELSE b

Zeros(n) == [i \in 1..n |-> 0]

\* A key all of whose bytes are b.
Rep(b) == [i \in 1..PUBLIC_KEY_LENGTH |-> b]

\* Buffer.slice(start, end): the bytes at 0-based positions start..end-1 that exist.
slice(data, start, end) == SubSeq(data, start + 1, Min(end, Len(data)))

\* new PublicKey(bytes): the bytes read as a big-endian number, which toBuffer()
\* pads on the left with zero bytes to 32 bytes; fewer than 32 bytes are accepted.
PublicKey(bytes) == Zeros(PUBLIC_KEY_LENGTH - Len(bytes)) \o bytes

\* Buffer.readUInt8 / readUInt32LE throw a RangeError when the read passes the end.
InRange(data, offset, n) == offset >= 0 /\ offset + n <= Len(data)

readUInt8(data, offset) == data[offset + 1]

readUInt32LE(data, offset) ==
    data[offset + 1] + 256 * data[offset + 2] + 65536 * data[offset + 3]
        + 16777216 * data[offset + 4]

\* Buffer.writeUInt32BE(n, 0) on a 4-byte buffer.
writeUInt32BE(n) == <<(n \div 16777216) % 256, (n \div 65536) % 256, (n \div 256) % 256, n % 256>>

\* A 4-byte little-endian count, as the on-chain serializer writes it.
U32LE(n) == <<n % 256, (n \div 256) % 256, (n \div 65536) % 256, (n \div 16777216) % 256>>

RECURSIVE Concat(_)
Concat(seqs) == IF seqs = <<>> THEN <<>> ELSE Head(seqs) \o Concat(Tail(seqs))

-----------------------------------------------------------------------------
(* Well-known identifiers                                                  *)

\* A program identifier: a fixed key, distinct per program.
ProgramId(c) == <<200>> \o Zeros(PUBLIC_KEY_LENGTH - 2) \o <<c>>

ENDPOINT_PROGRAM_ID == ProgramId(1)
ULN_PROGRAM_ID == ProgramId(2)
SIMPLE_MESSAGELIB_PROGRAM_ID == ProgramId(3)
EXECUTOR_PROGRAM_ID == ProgramId(4)
DVN_PROGRAM_ID == ProgramId(5)
PRICE_FEED_PROGRAM_ID == ProgramId(6)
BRIDGE_PROGRAM_ID_PK == ProgramId(7)

\* '11111111111111111111111111111111' is the base58 form of 32 zero bytes: the
\* "unset" sentinel and the system program are one identifier.
DEFAULT_MESSAGE_LIB == Zeros(PUBLIC_KEY_LENGTH)
SystemProgramId == Zeros(PUBLIC_KEY_LENGTH)

\* bridge.ts takes the endpoint from the environment configuration and names the
\* ULN program MESSAGE_LIB_PROGRAM_ID.
LZ_ENDPOINT_PROGRAM_ID_PK == ENDPOINT_PROGRAM_ID
MESSAGE_LIB_PROGRAM_ID == ULN_PROGRAM_ID

-----------------------------------------------------------------------------
(* PDA derivation                                                          *)

\* The seed strings of the derivations, as one byte each.
SeedTag(s) ==
    CASE s = "SendLibraryConfig" -> 1
      [] s = "MessageLib" -> 2
      [] s = "Nonce" -> 3
      [] s = "Endpoint" -> 4
      [] s = "__event_authority" -> 5
      [] s = "SendConfig" -> 6
      [] s = "ExecutorConfig" -> 7
      [] s = "Store" -> 8
      [] s = "Peer" -> 9
      [] s = "TokenVault" -> 10
      [] s = "VaultAuthority" -> 11
      [] s = "Ticket" -> 12
      [] s = "DefaultSendLibraryConfig" -> 13
      [] s = "PendingInboundNonce" -> 14
      [] s = "PayloadHash" -> 15

\* The part of a 32-byte seed that the stand-in for the hash keeps.
Fp(id) == <<id[1], id[2], id[3], id[PUBLIC_KEY_LENGTH]>>

\* PublicKey.findProgramAddressSync(seeds, programId)[0].  The hash is replaced
\* by a deterministic encoding of the program, the seed string, the number of
\* seed bytes and the seeds, which is injective over the keys of the model.
findProgramAddressSync(seed, parts, programId) ==
    LET body == <<255, programId[PUBLIC_KEY_LENGTH], SeedTag(seed), Len(parts)>> \o parts
    IN  body \o Zeros(PUBLIC_KEY_LENGTH - Len(body))

deriveSendLibraryConfig(sender, dstEid) ==
    findProgramAddressSync("SendLibraryConfig", Fp(sender) \o writeUInt32BE(dstEid),
                           ENDPOINT_PROGRAM_ID)

deriveDefaultSendLibraryConfig(dstEid) ==
    findProgramAddressSync("SendLibraryConfig", writeUInt32BE(dstEid), ENDPOINT_PROGRAM_ID)

deriveMessageLibraryInfo(messageLib) ==
    findProgramAddressSync("MessageLib", Fp(messageLib), ENDPOINT_PROGRAM_ID)

deriveNonce(sender, dstEid, receiver) ==
    findProgramAddressSync("Nonce", Fp(sender) \o writeUInt32BE(dstEid) \o Fp(receiver),
                           ENDPOINT_PROGRAM_ID)

deriveEndpointSettings == findProgramAddressSync("Endpoint", <<>>, ENDPOINT_PROGRAM_ID)

deriveEventAuthority(programId) == findProgramAddressSync("__event_authority", <<>>, programId)

deriveUlnSettings == findProgramAddressSync("MessageLib", <<>>, ULN_PROGRAM_ID)

deriveUlnSendConfig(dstEid, sender) ==
    findProgramAddressSync("SendConfig", writeUInt32BE(dstEid) \o Fp(sender), ULN_PROGRAM_ID)

deriveUlnDefaultSendConfig(dstEid) ==
    findProgramAddressSync("SendConfig", writeUInt32BE(dstEid), ULN_PROGRAM_ID)

deriveSimpleMessageLib ==
    findProgramAddressSync("MessageLib", <<>>, SIMPLE_MESSAGELIB_PROGRAM_ID)

deriveUlnMessageLib == findProgramAddressSync("MessageLib", <<>>, ULN_PROGRAM_ID)

deriveExecutorConfig == findProgramAddressSync("ExecutorConfig", <<>>, EXECUTOR_PROGRAM_ID)

-----------------------------------------------------------------------------
(* Account deserialization                                                 *)

RangeError == [ok |-> FALSE, error |-> "RangeError"]

\* A reader that does not advance: every key is read at offset.
ReadPubkeysNoAdvance(data, offset, n) ==
    [i \in 1..n |-> PublicKey(slice(data, offset, offset + PUBLIC_KEY_LENGTH))]

\* The n public keys read at offset, offset + 32, ...
ReadPubkeys(data, offset, n) ==
    [i \in 1..n |-> PublicKey(slice(data, offset + PUBLIC_KEY_LENGTH * (i - 1),
                                    offset + PUBLIC_KEY_LENGTH * i))]

deserializeSendLibraryConfig(data) == PublicKey(slice(data, 8, 40))

deserializeSendConfig(data) ==
    IF ~InRange(data, 17, 1) \/ ~InRange(data, 18, 1) \/ ~InRange(data, 20, 4)
    THEN RangeError
    ELSE LET requiredDvnsLength == readUInt32LE(data, 20)
             optOffset == 24 + PUBLIC_KEY_LENGTH * requiredDvnsLength
         IN  IF ~InRange(data, optOffset, 4)
             THEN RangeError
             ELSE LET optionalDvnsLength == readUInt32LE(data, optOffset)
                      offset == optOffset + 4 + PUBLIC_KEY_LENGTH * optionalDvnsLength + 4
                  IN  [ok |-> TRUE,
                       executor |-> PublicKey(slice(data, offset, offset + PUBLIC_KEY_LENGTH)),
                       requiredDvns |-> ReadPubkeys(data, 24, requiredDvnsLength),
                       optionalDvns |-> ReadPubkeys(data, optOffset + 4, optionalDvnsLength)]

\* A skip that takes every element for an account identifier of 32 bytes.
SkipArrayOfKeys(data, offset, size) ==
    IF ~InRange(data, offset, 4)
    THEN -1
    ELSE offset + 4 + readUInt32LE(data, offset) * PUBLIC_KEY_LENGTH

\* offset += 4 + len * size for one array field; -1 once a count cannot be read.
SkipArray(data, offset, size) ==
    IF ~InRange(data, offset, 4) THEN -1 ELSE offset + 4 + readUInt32LE(data, offset) * size

deserializeExecutorConfig(data) ==
    LET allowList == SkipArray(data, 8 + 1 + 32, 32)
        denyList == SkipArray(data, allowList, 32)
        admins == SkipArray(data, denyList, 32)
        executors == SkipArray(data, admins, 32)
        msglibs == SkipArray(data, executors, 32)
        offset == msglibs + 1 + 2
    IN  IF msglibs < 0
        THEN RangeError
        ELSE [ok |-> TRUE,
              priceFeed |-> PublicKey(slice(data, offset, offset + PUBLIC_KEY_LENGTH))]

deserializeDvnConfig(data) ==
    LET signers == SkipArray(data, 8 + 4 + 1, 64)
        allowList == SkipArray(data, IF signers < 0 THEN -1 ELSE signers + 1, 32)
        denyList == SkipArray(data, allowList, 32)
        msglibs == SkipArray(data, IF denyList < 0 THEN -1 ELSE denyList + 1, 32)
        admins == SkipArray(data, msglibs, 32)
    IN  IF admins < 0
        THEN RangeError
        ELSE [ok |-> TRUE,
              priceFeed |-> PublicKey(slice(data, admins, admins + PUBLIC_KEY_LENGTH))]

-----------------------------------------------------------------------------
(* The ledger accounts the resolver reads                                  *)

\* On-chain layout of the records, as the deserializers' comments give it.
EncodeSendLibraryConfig(messageLib) == Zeros(8) \o messageLib

EncodeSendConfig(cfg) ==
    Zeros(8) \o <<1>> \o <<10, 0, 0, 0, 0, 0, 0, 0>>
        \o <<Len(cfg.requiredDvns), Len(cfg.optionalDvns), 0>>
        \o U32LE(Len(cfg.requiredDvns)) \o Concat(cfg.requiredDvns)
        \o U32LE(Len(cfg.optionalDvns)) \o Concat(cfg.optionalDvns)
        \o U32LE(10000) \o cfg.executor

EncodeExecutorConfig(owner, admins, priceFeed) ==
    Zeros(8) \o <<1>> \o owner
        \o U32LE(0) \o U32LE(0)
        \o U32LE(Len(admins)) \o Concat(admins)
        \o U32LE(0) \o U32LE(0)
        \o <<0>> \o <<0, 0>> \o priceFeed

EncodeDvnConfig(signers, admins, priceFeed) ==
    Zeros(8) \o <<1, 0, 0, 0>> \o <<1>>
        \o U32LE(signers) \o Zeros(64 * signers) \o <<1>>
        \o U32LE(0) \o U32LE(0)
        \o <<0>>
        \o U32LE(0)
        \o U32LE(Len(admins)) \o Concat(admins)
        \o priceFeed

\* Keys of the model: relayer (executor) configs, validator (DVN) configs, price
\* feeds, a wallet and a remote peer address.  E1 is the config account of the
\* well-known executor program, E2 that of another executor.
E1 == deriveExecutorConfig
E2 == Rep(226)
V1 == Rep(177)
V2 == Rep(178)
V3 == Rep(179)
P1 == Rep(241)
P2 == Rep(242)
Wallet1 == Rep(161)
Wallet2 == Rep(162)
PeerAddress == Rep(192)

deriveStorePDA == findProgramAddressSync("Store", <<>>, BRIDGE_PROGRAM_ID_PK)

EID_ETHEREUM == 40161

\* The parameters of the getSendAccounts call of the model.
ResolveParams ==
    [payer |-> Wallet1, sender |-> deriveStorePDA, dstEid |-> EID_ETHEREUM,
     receiver |-> PeerAddress]

\* The program that owns the config account E2.
OTHER_EXECUTOR_PROGRAM_ID == ProgramId(10)

ExecutorKeys == {E1, E2}
DvnKeys == {V1, V2, V3}
PriceFeedKeys == {P1, P2}

\* The executor config and every DVN config point to a price feed.
PriceFeedOf(k) == IF k \in ExecutorKeys THEN P1 ELSE P2

\* null, as getAccountInfo returns it for an absent account; owner and data of
\* null are never read.
NoAccount == [exists |-> FALSE, owner |-> <<>>, data |-> <<>>]

Account(owner, data) == [exists |-> TRUE, owner |-> owner, data |-> data]

\* The accounts a scenario puts on the ledger.
LedgerKeys(s) ==
    LET p == ResolveParams
    IN  {deriveSimpleMessageLib}
        \cup (IF s.ulnPresent THEN {deriveUlnMessageLib} ELSE {})
        \cup (IF s.sendLib.present THEN {deriveSendLibraryConfig(p.sender, p.dstEid)} ELSE {})
        \cup (IF s.defaultLib.present THEN {deriveDefaultSendLibraryConfig(p.dstEid)} ELSE {})
        \cup (IF s.defaultCfg.present THEN {deriveUlnDefaultSendConfig(p.dstEid)} ELSE {})
        \cup (IF s.overrideCfg.present THEN {deriveUlnSendConfig(p.dstEid, p.sender)} ELSE {})
        \cup ((ExecutorKeys \cup DvnKeys \cup PriceFeedKeys) \ s.missing)

LedgerAccount(s, k) ==
    LET p == ResolveParams
    IN  CASE k = deriveSimpleMessageLib -> Account(SIMPLE_MESSAGELIB_PROGRAM_ID, Zeros(8))
          [] k = deriveUlnMessageLib -> Account(ULN_PROGRAM_ID, Zeros(8))
          [] k = deriveSendLibraryConfig(p.sender, p.dstEid) ->
                Account(ENDPOINT_PROGRAM_ID, EncodeSendLibraryConfig(s.sendLib.messageLib))
          [] k = deriveDefaultSendLibraryConfig(p.dstEid) ->
                Account(ENDPOINT_PROGRAM_ID, EncodeSendLibraryConfig(s.defaultLib.messageLib))
          [] k = deriveUlnDefaultSendConfig(p.dstEid) ->
                Account(ULN_PROGRAM_ID, EncodeSendConfig(s.defaultCfg))
          [] k = deriveUlnSendConfig(p.dstEid, p.sender) ->
                Account(ULN_PROGRAM_ID, EncodeSendConfig(s.overrideCfg))
          [] k \in ExecutorKeys ->
                Account(IF k = E1 THEN EXECUTOR_PROGRAM_ID ELSE OTHER_EXECUTOR_PROGRAM_ID,
                        EncodeExecutorConfig(Wallet2, IF k = E1 THEN <<>> ELSE <<Wallet2>>,
                                             PriceFeedOf(k)))
          [] k \in DvnKeys ->
                Account(DVN_PROGRAM_ID,
                        EncodeDvnConfig(IF k = V1 THEN 0 ELSE 1,
                                        IF k = V3 THEN <<Wallet2>> ELSE <<>>, PriceFeedOf(k)))
          [] k \in PriceFeedKeys -> Account(PRICE_FEED_PROGRAM_ID, Zeros(8))

LedgerOf(s) == [k \in LedgerKeys(s) |-> LedgerAccount(s, k)]

\* connection.getAccountInfo / getMultipleAccountsInfo: null for an absent account.
getAccountInfo(accts, key) == IF key \in DOMAIN accts THEN accts[key] ELSE NoAccount

getMultipleAccountsInfo(accts, keys) == [i \in 1..Len(keys) |-> getAccountInfo(accts, keys[i])]

-----------------------------------------------------------------------------
(* The deserializers applied to account data                               *)

\* No account data has been handed to a deserializer.
NoBuffer == [kind |-> "none", data |-> <<>>]

NotDecoded == [ok |-> FALSE, error |-> ""]

\* The deserializer of each kind of record, applied to the data of an account.
Deserialize(kind, data) ==
    CASE kind = "SendLibraryConfig" ->
            [ok |-> TRUE, messageLib |-> deserializeSendLibraryConfig(data)]
      [] kind = "SendConfig" -> deserializeSendConfig(data)
      [] kind = "ExecutorConfig" -> deserializeExecutorConfig(data)
      [] kind = "DvnConfig" -> deserializeDvnConfig(data)

-----------------------------------------------------------------------------
(* getSendAccounts                                                         *)

AccountMeta(pubkey, isSigner, isWritable) ==
    [pubkey |-> pubkey, isSigner |-> isSigner, isWritable |-> isWritable]

Ok(list) == [ok |-> TRUE, list |-> list]

\* throw new Error(message), with the identifier the message names.
Throw(error, key) == [ok |-> FALSE, error |-> error, key |-> key]

\* sequence.filter(x => !x.equals(DEFAULT_MESSAGE_LIB))
RECURSIVE FilterNotDefault(_)
FilterNotDefault(keys) ==
    IF keys = <<>> THEN <<>>
    ELSE IF Head(keys) = DEFAULT_MESSAGE_LIB THEN FilterNotDefault(Tail(keys))
    ELSE <<Head(keys)>> \o FilterNotDefault(Tail(keys))

EffectiveMsgLibInverted(sendLibConfigInfo, defaultSendLibConfigInfo) ==
    IF sendLibConfigInfo = DEFAULT_MESSAGE_LIB THEN sendLibConfigInfo
    ELSE defaultSendLibConfigInfo

\* The effective message library.
EffectiveMsgLib(sendLibConfigInfo, defaultSendLibConfigInfo) ==
    IF sendLibConfigInfo = DEFAULT_MESSAGE_LIB THEN defaultSendLibConfigInfo
    ELSE sendLibConfigInfo

EndpointAccountsReadOnlyNonce(p, lib) ==
    LET msgLibProgram ==
            IF lib = deriveSimpleMessageLib THEN SIMPLE_MESSAGELIB_PROGRAM_ID
            ELSE ULN_PROGRAM_ID
    IN  << AccountMeta(ENDPOINT_PROGRAM_ID, FALSE, FALSE),
           AccountMeta(p.sender, FALSE, FALSE),
           AccountMeta(msgLibProgram, FALSE, FALSE),
           AccountMeta(deriveSendLibraryConfig(p.sender, p.dstEid), FALSE, FALSE),
           AccountMeta(deriveDefaultSendLibraryConfig(p.dstEid), FALSE, FALSE),
           AccountMeta(deriveMessageLibraryInfo(lib), FALSE, FALSE),
           AccountMeta(deriveEndpointSettings, FALSE, FALSE),
           AccountMeta(deriveNonce(p.sender, p.dstEid, p.receiver), FALSE, FALSE),
           AccountMeta(deriveEventAuthority(ENDPOINT_PROGRAM_ID), FALSE, FALSE),
           AccountMeta(ENDPOINT_PROGRAM_ID, FALSE, FALSE) >>

\* The ten endpoint accounts.
EndpointAccounts(p, lib) ==
    LET msgLibProgram ==
            IF lib = deriveSimpleMessageLib THEN SIMPLE_MESSAGELIB_PROGRAM_ID
            ELSE ULN_PROGRAM_ID
    IN  << AccountMeta(ENDPOINT_PROGRAM_ID, FALSE, FALSE),
           AccountMeta(p.sender, FALSE, FALSE),
           AccountMeta(msgLibProgram, FALSE, FALSE),
           AccountMeta(deriveSendLibraryConfig(p.sender, p.dstEid), FALSE, FALSE),
           AccountMeta(deriveDefaultSendLibraryConfig(p.dstEid), FALSE, FALSE),
           AccountMeta(deriveMessageLibraryInfo(lib), FALSE, FALSE),
           AccountMeta(deriveEndpointSettings, FALSE, FALSE),
           AccountMeta(deriveNonce(p.sender, p.dstEid, p.receiver), FALSE, TRUE),
           AccountMeta(deriveEventAuthority(ENDPOINT_PROGRAM_ID), FALSE, FALSE),
           AccountMeta(ENDPOINT_PROGRAM_ID, FALSE, FALSE) >>

\* The eight ULN accounts.
UlnAccounts(p) ==
    << AccountMeta(deriveUlnSettings, FALSE, FALSE),
       AccountMeta(deriveUlnSendConfig(p.dstEid, p.sender), FALSE, FALSE),
       AccountMeta(deriveUlnDefaultSendConfig(p.dstEid), FALSE, FALSE),
       AccountMeta(p.payer, FALSE, TRUE),
       AccountMeta(ULN_PROGRAM_ID, FALSE, FALSE),
       AccountMeta(SystemProgramId, FALSE, FALSE),
       AccountMeta(deriveEventAuthority(ULN_PROGRAM_ID), FALSE, FALSE),
       AccountMeta(ULN_PROGRAM_ID, FALSE, FALSE) >>

getExecutorAccounts(priceFeedConfig, priceFeedProgram, payment) ==
    << AccountMeta(EXECUTOR_PROGRAM_ID, FALSE, FALSE),
       AccountMeta(deriveExecutorConfig, FALSE, payment),
       AccountMeta(priceFeedProgram, FALSE, FALSE),
       AccountMeta(priceFeedConfig, FALSE, FALSE) >>

MergeExecutorAlwaysOverride(defaultState, sendConfigPresent, sendConfigState) ==
    IF sendConfigPresent THEN sendConfigState.executor ELSE defaultState.executor

\* The merge of the default send config with the per-sender one (null when absent).
MergeExecutor(defaultState, sendConfigPresent, sendConfigState) ==
    IF sendConfigPresent /\ sendConfigState.executor # DEFAULT_MESSAGE_LIB
    THEN sendConfigState.executor
    ELSE defaultState.executor

MergeDvnsAppend(defaultState, sendConfigPresent, sendConfigState, field) ==
    IF sendConfigPresent /\ Len(sendConfigState[field]) > 0
    THEN defaultState[field] \o FilterNotDefault(sendConfigState[field])
    ELSE defaultState[field]

\* field is "requiredDvns" or "optionalDvns".
MergeDvns(defaultState, sendConfigPresent, sendConfigState, field) ==
    IF sendConfigPresent /\ Len(sendConfigState[field]) > 0
    THEN FilterNotDefault(sendConfigState[field])
    ELSE defaultState[field]

NoKey == <<>>

Pending == [ok |-> FALSE, error |-> "", key |-> NoKey]

NoConfig == [ok |-> FALSE, error |-> ""]

\* The locals of a call that has not got as far as setting them.
Locals0 ==
    [pc |-> "start", result |-> Pending, msgLib |-> NoKey, executor |-> NoKey,
     requiredDvns |-> <<>>, optionalDvns |-> <<>>, executorConfig |-> NoConfig,
     dvnConfigs |-> <<>>, priceFeedBufs |-> <<>>]

Done(st, res) == [st EXCEPT !.pc = "done", !.result = res]

\* The two checks on the library-pointer accounts: the error thrown, or Pending
\* when both accounts exist.
CheckLibraryConfigsOnlySender(sendLibConfigBuf, defaultSendLibConfigBuf, sendLibConfig, defaultSendLibConfig) ==
    IF ~sendLibConfigBuf.exists
    THEN Throw("Send library config not initialized", sendLibConfig)
    ELSE Pending

CheckLibraryConfigs(sendLibConfigBuf, defaultSendLibConfigBuf, sendLibConfig, defaultSendLibConfig) ==
    IF ~sendLibConfigBuf.exists
    THEN Throw("Send library config not initialized", sendLibConfig)
    ELSE IF ~defaultSendLibConfigBuf.exists
    THEN Throw("Default send library config not initialized", defaultSendLibConfig)
    ELSE Pending

\* The first batched fetch and the code up to the second one.
Phase1(accts, p, st) ==
    LET sendLibConfig == deriveSendLibraryConfig(p.sender, p.dstEid)
        defaultSendLibConfig == deriveDefaultSendLibraryConfig(p.dstEid)
        simpleMsgLib == deriveSimpleMessageLib
        bufs == getMultipleAccountsInfo(accts,
                    <<sendLibConfig, defaultSendLibConfig, simpleMsgLib, deriveUlnMessageLib,
                      deriveUlnDefaultSendConfig(p.dstEid),
                      deriveUlnSendConfig(p.dstEid, p.sender)>>)
        notConfigured ==
            CheckLibraryConfigs(bufs[1], bufs[2], sendLibConfig, defaultSendLibConfig)
    IN  IF notConfigured # Pending
        THEN Done(st, notConfigured)
        ELSE
        LET lib == EffectiveMsgLib(deserializeSendLibraryConfig(bufs[1].data),
                                   deserializeSendLibraryConfig(bufs[2].data))
            st1 == [st EXCEPT !.msgLib = lib]
        IN  IF lib = simpleMsgLib
            THEN Done(st1, Ok(EndpointAccounts(p, lib)
                              \o << AccountMeta(simpleMsgLib, FALSE, FALSE),
                                    AccountMeta(p.payer, FALSE, TRUE) >>))
            ELSE IF ~bufs[4].exists \/ ~bufs[5].exists
            THEN Done(st1, Throw("ULN send library not initialized", NoKey))
            ELSE
            LET defaultSendConfigState == deserializeSendConfig(bufs[5].data)
                present == bufs[6].exists
                sendConfigState ==
                    IF present THEN deserializeSendConfig(bufs[6].data) ELSE NoConfig
            IN  IF ~defaultSendConfigState.ok \/ (present /\ ~sendConfigState.ok)
                THEN Done(st1, Throw("RangeError", NoKey))
                ELSE [st1 EXCEPT
                        !.pc = "await2",
                        !.executor =
                            MergeExecutor(defaultSendConfigState, present, sendConfigState),
                        !.requiredDvns =
                            MergeDvns(defaultSendConfigState, present, sendConfigState,
                                      "requiredDvns"),
                        !.optionalDvns =
                            MergeDvns(defaultSendConfigState, present, sendConfigState,
                                      "optionalDvns")]

DvnsKeyOptionalFirst(required, optional) == optional \o required

\* const dvnsKey = requiredDvns.concat(optionalDvns)
DvnsKey(required, optional) == required \o optional

\* The least index at which a sequence of flags is TRUE, 0 when there is none.
FirstIndex(flags) ==
    IF \E i \in DOMAIN flags : flags[i]
    THEN CHOOSE i \in DOMAIN flags : flags[i] /\ \A j \in 1..(i - 1) : ~flags[j]
    ELSE 0

\* The fetch of the executor and DVN configs, and their deserialization.
Phase2(accts, p, st) ==
    LET dvnsKey == DvnsKey(st.requiredDvns, st.optionalDvns)
        bufs == getMultipleAccountsInfo(accts, <<st.executor>> \o dvnsKey)
        executorBuf == bufs[1]
        dvnBufs == Tail(bufs)
    IN  IF ~executorBuf.exists
        THEN Done(st, Throw("Executor not initialized", st.executor))
        ELSE
        LET config == deserializeExecutorConfig(executorBuf.data)
            Bad(i) == ~dvnBufs[i].exists \/ ~deserializeDvnConfig(dvnBufs[i].data).ok
            bad == FirstIndex([i \in 1..Len(dvnsKey) |-> Bad(i)])
        IN  IF ~config.ok
            THEN Done(st, Throw("RangeError", NoKey))
            ELSE IF bad # 0
            THEN IF ~dvnBufs[bad].exists
                 THEN Done(st, Throw("DVN not initialized", dvnsKey[bad]))
                 ELSE Done(st, Throw("RangeError", NoKey))
            ELSE [st EXCEPT
                    !.pc = "await3",
                    !.executorConfig = config,
                    !.dvnConfigs =
                        [i \in 1..Len(dvnsKey) |-> deserializeDvnConfig(dvnBufs[i].data)]]

\* The fetch of the price-feed accounts.
Phase3(accts, p, st) ==
    LET priceFeeds ==
            <<st.executorConfig.priceFeed>>
                \o [i \in 1..Len(st.dvnConfigs) |-> st.dvnConfigs[i].priceFeed]
    IN  [st EXCEPT !.pc = "await4",
                   !.priceFeedBufs = getMultipleAccountsInfo(accts, priceFeeds)]

PriceFeedProgramConstant(buf) == PRICE_FEED_PROGRAM_ID

\* The owner of a fetched price feed, or the system program when it is absent.
PriceFeedProgram(buf) == IF buf.exists THEN buf.owner ELSE SystemProgramId

DvnAccountsConstantProgram(dvnsKey, dvnConfigInfos, st, i) ==
    << AccountMeta(DVN_PROGRAM_ID, FALSE, FALSE),
       AccountMeta(dvnsKey[i], FALSE, TRUE),
       AccountMeta(PriceFeedProgram(st.priceFeedBufs[i + 1]), FALSE, FALSE),
       AccountMeta(st.dvnConfigs[i].priceFeed, FALSE, FALSE) >>

\* The four accounts of the i-th DVN.
DvnAccounts(dvnsKey, dvnConfigInfos, st, i) ==
    << AccountMeta(dvnConfigInfos[i].owner, FALSE, FALSE),
       AccountMeta(dvnsKey[i], FALSE, TRUE),
       AccountMeta(PriceFeedProgram(st.priceFeedBufs[i + 1]), FALSE, FALSE),
       AccountMeta(st.dvnConfigs[i].priceFeed, FALSE, FALSE) >>

\* The second fetch of the DVN configs and the assembly of the final list.
Phase4(accts, p, st) ==
    LET dvnsKey == DvnsKey(st.requiredDvns, st.optionalDvns)
        executorAccounts ==
            getExecutorAccounts(st.executorConfig.priceFeed,
                                PriceFeedProgram(st.priceFeedBufs[1]), TRUE)
        dvnConfigInfos == getMultipleAccountsInfo(accts, dvnsKey)
        Missing(i) == ~dvnConfigInfos[i].exists
        bad == FirstIndex([i \in 1..Len(dvnsKey) |-> Missing(i)])
    IN  IF bad # 0
        THEN Done(st, Throw("DVN config account not found", dvnsKey[bad]))
        ELSE Done(st, Ok(EndpointAccounts(p, st.msgLib) \o UlnAccounts(p) \o executorAccounts
                         \o Concat([i \in 1..Len(dvnsKey) |->
                                       DvnAccounts(dvnsKey, dvnConfigInfos, st, i)])))

\* getSendAccounts against a ledger that does not change while it runs.
getSendAccounts(accts, p) ==
    LET s1 == Phase1(accts, p, Locals0)
        s2 == IF s1.pc = "done" THEN s1 ELSE Phase2(accts, p, s1)
        s3 == IF s2.pc = "done" THEN s2 ELSE Phase3(accts, p, s2)
        s4 == IF s3.pc = "done" THEN s3 ELSE Phase4(accts, p, s3)
    IN  s4.result

\* A quote list that keeps the writable flags of the send list.
getQuoteAccountsKeepsWritable(send) == send

\* getQuoteAccounts, from the point where its call of getSendAccounts has
\* settled with send: the list of getSendAccounts with isWritable false on
\* every entry; a rejection of getSendAccounts is the rejection of the call.
getQuoteAccounts(send) ==
    IF send.ok
    THEN Ok([i \in 1..Len(send.list) |-> [send.list[i] EXCEPT !.isWritable = FALSE]])
    ELSE send

-----------------------------------------------------------------------------
(* Ledger configurations                                                   *)

MaxDvns == 2
MaxLedgerChanges == 1

SeqsUpTo(S, n) == UNION {[1..k -> S] : k \in 0..n}

Pointer(lib) == [present |-> TRUE, messageLib |-> lib]
NoPointer == [present |-> FALSE, messageLib |-> DEFAULT_MESSAGE_LIB]

SendConfig(e, r, o) ==
    [present |-> TRUE, executor |-> e, requiredDvns |-> r, optionalDvns |-> o]
NoSendConfig ==
    [present |-> FALSE, executor |-> DEFAULT_MESSAGE_LIB, requiredDvns |-> <<>>,
     optionalDvns |-> <<>>]

\* A message library that is neither the direct nor the validated one.
OtherLib == Rep(99)

DefaultConfigs ==
    {SendConfig(e, d[1], d[2]) :
        e \in {E1, DEFAULT_MESSAGE_LIB}, d \in {<<<<V1>>, <<>>>>, <<<<V2, V1>>, <<V3>>>>}}

OverrideConfigs ==
    {SendConfig(e, r, o) :
        e \in {DEFAULT_MESSAGE_LIB, E2},
        r \in SeqsUpTo({DEFAULT_MESSAGE_LIB, V1, V2}, MaxDvns),
        o \in SeqsUpTo({DEFAULT_MESSAGE_LIB, V3}, MaxDvns)}

\* Every combination of the two library pointers, with and without the
\* validated-path accounts.
LibraryScenarios ==
    [sendLib : {NoPointer, Pointer(DEFAULT_MESSAGE_LIB), Pointer(deriveSimpleMessageLib),
                Pointer(deriveUlnMessageLib), Pointer(OtherLib)},
     defaultLib : {NoPointer, Pointer(DEFAULT_MESSAGE_LIB), Pointer(deriveSimpleMessageLib),
                   Pointer(deriveUlnMessageLib)},
     ulnPresent : BOOLEAN,
     defaultCfg : {NoSendConfig, SendConfig(E1, <<V1>>, <<>>)},
     overrideCfg : {NoSendConfig},
     missing : {{}, {E1}}]

\* The validated path, with every combination of default and per-sender
\* send configs.
ConfigScenarios ==
    [sendLib : {Pointer(DEFAULT_MESSAGE_LIB)},
     defaultLib : {Pointer(deriveUlnMessageLib)},
     ulnPresent : {TRUE},
     defaultCfg : DefaultConfigs,
     overrideCfg : OverrideConfigs \cup {NoSendConfig},
     missing : {{}, {P1}, {P2}}]

Scenarios == LibraryScenarios \cup ConfigScenarios

-----------------------------------------------------------------------------
(* bridge.ts: derivations and the accounts attached to the bridge operation *)

\* ticketId.toArrayLike(Buffer, 'le', 8)
U64LE(n) == U32LE(n) \o <<0, 0, 0, 0>>

derivePeerPDA(dstEid) ==
    findProgramAddressSync("Peer", Fp(deriveStorePDA) \o writeUInt32BE(dstEid),
                           BRIDGE_PROGRAM_ID_PK)

deriveTicketPDA(owner, ticketId) ==
    findProgramAddressSync("Ticket", Fp(owner) \o U64LE(ticketId), BRIDGE_PROGRAM_ID_PK)

deriveEndpointPDA == findProgramAddressSync("Endpoint", <<>>, LZ_ENDPOINT_PROGRAM_ID_PK)

deriveLzAccounts(sender, senderPDA, dstEid, peerPDA) ==
    LET eidBuffer == writeUInt32BE(dstEid)
        perPath == Fp(senderPDA) \o eidBuffer \o Fp(peerPDA)
    IN  << AccountMeta(sender, TRUE, TRUE),
           AccountMeta(deriveEndpointPDA, FALSE, TRUE),
           AccountMeta(findProgramAddressSync("SendLibraryConfig", Fp(senderPDA),
                                              LZ_ENDPOINT_PROGRAM_ID_PK), FALSE, FALSE),
           AccountMeta(findProgramAddressSync("DefaultSendLibraryConfig", Fp(senderPDA),
                                              LZ_ENDPOINT_PROGRAM_ID_PK), FALSE, FALSE),
           AccountMeta(MESSAGE_LIB_PROGRAM_ID, FALSE, FALSE),
           AccountMeta(findProgramAddressSync("Nonce", perPath, LZ_ENDPOINT_PROGRAM_ID_PK),
                       FALSE, TRUE),
           AccountMeta(findProgramAddressSync("PendingInboundNonce", perPath,
                                              LZ_ENDPOINT_PROGRAM_ID_PK), FALSE, TRUE),
           AccountMeta(findProgramAddressSync("PayloadHash", perPath,
                                              LZ_ENDPOINT_PROGRAM_ID_PK), FALSE, TRUE),
           AccountMeta(peerPDA, FALSE, FALSE),
           AccountMeta(senderPDA, FALSE, FALSE),
           AccountMeta(findProgramAddressSync("__event_authority", <<>>,
                                              LZ_ENDPOINT_PROGRAM_ID_PK), FALSE, FALSE),
           AccountMeta(SystemProgramId, FALSE, FALSE),
           AccountMeta(LZ_ENDPOINT_PROGRAM_ID_PK, FALSE, FALSE) >>

-----------------------------------------------------------------------------
(* The ledger program: tickets and cross-chain messages                    *)

MaxAttempts == 2

Attempts == 1..MaxAttempts
\* The wallet connected to the page, which every attempt locks and bridges for.
Owners == {Wallet1}
\* Two of the ticket ids the random draw can produce: enough for attempts to
\* collide on a ticket and not to.
TicketIds == {1, 2}
TicketPDAs == {deriveTicketPDA(o, id) : o \in Owners, id \in TicketIds}

\* lock{ticketId, amount}: creates the ticket account at the PDA of (owner, id)
\* with status Locked; creation at an address that is taken fails.
LedgerLock(tk, pda) ==
    IF tk[pda] = "None"
    THEN [ok |-> TRUE, tickets |-> [tk EXCEPT ![pda] = "Locked"]]
    ELSE [ok |-> FALSE, tickets |-> tk]

LedgerBridgeUnchecked(tk, msgs, pda) ==
    [ok |-> TRUE, tickets |-> [tk EXCEPT ![pda] = "Bridged"],
     messages |-> [msgs EXCEPT ![pda] = @ + 1]]

\* bridge{ticketId, ...}: the ticket must be Locked (InvalidTicketState
\* otherwise); it becomes Bridged and one cross-chain message is emitted.
LedgerBridge(tk, msgs, pda) ==
    IF tk[pda] = "Locked"
    THEN [ok |-> TRUE, tickets |-> [tk EXCEPT ![pda] = "Bridged"],
          messages |-> [msgs EXCEPT ![pda] = @ + 1]]
    ELSE [ok |-> FALSE, tickets |-> tk, messages |-> msgs]

-----------------------------------------------------------------------------
(* bridge.ts: the bridge attempts                                          *)

\* executeBridgeWithSendTransaction, executeBridgeWithWallet, executeBridge
Variants == {"sendTransaction", "wallet", "sign"}

\* The callers of useBridge().initVault, each with a hook of its own, none of
\* which has called it.
Callers == {1, 2}
NoInits ==
    [c \in Callers |-> [pc |-> "none", landed |-> "none", result |-> "none", cause |-> "none",
                        vaultStatus |-> "none", initializingVault |-> FALSE,
                        checkingVault |-> FALSE]]

\* The ticket payments of one deposit, by ticketIndex.
TicketIndexes == {0}

\* The calls of startStatusPolling for one ticketIndex, and the calls of
\* generateTicketFromTEE made from outside of a run.
MaxRuns == 2
MaxDirectCalls == 1
Runs == 1..MaxRuns
DirectCalls == (MaxRuns + 1)..(MaxRuns + MaxDirectCalls)
Generators == Runs \cup DirectCalls

\* The deposit addresses: the ones the quote service issues to the page, in the
\* order of issue, and one it has issued to somebody else.
OtherAddress == MaxRuns + 1
Addresses == 1..OtherAddress

\* Nothing is stored at a ticketIndex: no payment, no interval registered, no
\* run of startStatusPolling, no call of generateTicketFromTEE.
NoPayment ==
    [payment |-> "none", depositAddress |-> 0, timer |-> 0, runs |-> 0, direct |-> 0,
     addressOf |-> [g \in Generators |-> 0],
     inFlight |-> [r \in Runs |-> 0],
     generating |-> [g \in Generators |-> 0],
     generations |-> [g \in Generators |-> 0],
     appended |-> [g \in Generators |-> 0]]

\* The page is mounted, no deposit address was asked for or issued, nothing is
\* polled, completedTickets is empty and every swap is pending.
NoPolling ==
    [mounted |-> TRUE, quoting |-> 0, issued |-> 0, completedTickets |-> 0,
     swap |-> [a \in Addresses |-> "PENDING"],
     ticket |-> [i \in TicketIndexes |-> NoPayment]]

\* No call of useBridge().bridge is running.
NoHook ==
    [pc |-> "none", tokenMint |-> <<>>, recipient |-> <<>>, exists |-> FALSE, init |-> "none",
     initResult |-> "none", bridging |-> FALSE, initializingVault |-> FALSE,
     checkingVault |-> FALSE, vaultStatus |-> "none", check |-> "none",
     own |-> "none", ownResult |-> "none"]

Idle ==
    [pc |-> "idle", variant |-> "sendTransaction", owner |-> Wallet1, ticketId |-> 0,
     lockStatus |-> "none", bridgeStatus |-> "none", seen |-> "none",
     lockSubmits |-> 0, bridgeSubmits |-> 0, guid |-> FALSE]

NoAttempts == [a \in Attempts |-> Idle]

TicketOf(a) == deriveTicketPDA(attempts[a].owner, attempts[a].ticketId)

\* The variant awaits confirmation through confirmTransaction, whose result
\* ({value: {err}}) the code does not look at.  executeBridgeWithWallet instead
\* awaits the caller's sendAndConfirm, which rejects when the transaction fails.
IgnoresConfirmationResult(variant) == variant # "wallet"

\* The call has thrown: nothing of it is left.
Failed == [Idle EXCEPT !.pc = "failed"]

\* The call goes on after the bridge submission with its locals as they are:
\* the ticket id is read again for the result.
Finished(at, pc) == [at EXCEPT !.pc = pc]

\* A call starts: the ticket id is Math.floor(Math.random() * 1000000000).
\* Attempts are numbered in the order in which they start.
Started(a, v, o, id) ==
    IF attempts[a].pc = "idle" /\ \A b \in Attempts : b < a => attempts[b].pc # "idle"
    THEN [ok |-> TRUE, at |-> [Idle EXCEPT !.variant = v, !.owner = o, !.ticketId = id]]
    ELSE [ok |-> FALSE, at |-> Idle]

\* remainingAccounts of the bridge operation, as the three variants build it.
RemainingAccounts(owner) ==
    deriveLzAccounts(owner, deriveStorePDA, EID_ETHEREUM, derivePeerPDA(EID_ETHEREUM))

\* The call runs up to the submission of the lock operation, which is
\* rejected (by the wallet, the RPC node or the preflight simulation): the
\* await throws.
SendLockRejected(a, v, o, id) ==
    /\ Started(a, v, o, id).ok
    /\ attempts' = [attempts EXCEPT ![a] =
                        Failed]
    /\ UNCHANGED <<accounts, scenario, resolverVars, decoderVars, uiVars, tickets, messages>>

\* The call runs up to the submission of the lock operation, which is
\* accepted and executed by the ledger, successfully or not (fails: a failure
\* other than the state of the ticket, such as a balance that is too low).
SendLockLanded(a, v, o, id, fails) ==
    /\ Started(a, v, o, id).ok
    /\ LET at == Started(a, v, o, id).at
           r == LedgerLock(tickets, deriveTicketPDA(o, id))
           ok == r.ok /\ ~fails
           sent == [at EXCEPT !.lockSubmits = 1,
                              !.lockStatus = IF ok THEN "ok" ELSE "err"]
       IN  /\ tickets' = IF ok THEN r.tickets ELSE tickets
           /\ attempts' = [attempts EXCEPT ![a] =
                    IF IgnoresConfirmationResult(v)
                    THEN [sent EXCEPT !.pc = "confirmLock"]
                    ELSE IF ok
                         THEN [sent EXCEPT !.pc = "sendBridge"]
                         ELSE Failed]
    /\ UNCHANGED <<accounts, scenario, resolverVars, decoderVars, uiVars, messages>>

\* confirmTransaction resolves; the bridge operation is built next.
ConfirmLock(a) ==
    /\ attempts[a].pc = "confirmLock"
    /\ attempts' = [attempts EXCEPT ![a] = [@ EXCEPT !.pc = "sendBridge"]]
    /\ UNCHANGED <<accounts, scenario, resolverVars, decoderVars, uiVars, tickets, messages>>

\* confirmTransaction throws (timeout, expired blockhash).
ConfirmLockThrows(a) ==
    /\ attempts[a].pc = "confirmLock"
    /\ attempts' = [attempts EXCEPT ![a] = Failed]
    /\ UNCHANGED <<accounts, scenario, resolverVars, decoderVars, uiVars, tickets, messages>>

SendBridgeRejected(a) ==
    /\ attempts[a].pc = "sendBridge"
    /\ attempts' = [attempts EXCEPT ![a] =
                        Failed]
    /\ UNCHANGED <<accounts, scenario, resolverVars, decoderVars, uiVars, tickets, messages>>

SendBridgeLanded(a, fails) ==
    /\ attempts[a].pc = "sendBridge"
    /\ LET at == attempts[a]
           r == LedgerBridge(tickets, messages, TicketOf(a))
           ok == r.ok /\ ~fails
           sent == [at EXCEPT !.bridgeSubmits = @ + 1,
                              !.bridgeStatus = IF ok THEN "ok" ELSE "err",
                              !.seen = tickets[TicketOf(a)]]
       IN  /\ tickets' = IF ok THEN r.tickets ELSE tickets
           /\ messages' = IF ok THEN r.messages ELSE messages
           /\ attempts' = [attempts EXCEPT ![a] =
                    IF IgnoresConfirmationResult(at.variant)
                    THEN Finished(sent, "confirmBridge")
                    ELSE IF ok
                         THEN Finished(sent, "getTransaction")
                         ELSE Failed]
    /\ UNCHANGED <<accounts, scenario, resolverVars, decoderVars, uiVars>>

ConfirmBridge(a) ==
    /\ attempts[a].pc = "confirmBridge"
    /\ attempts' = [attempts EXCEPT ![a] = [@ EXCEPT !.pc = "getTransaction"]]
    /\ UNCHANGED <<accounts, scenario, resolverVars, decoderVars, uiVars, tickets, messages>>

ConfirmBridgeThrows(a) ==
    /\ attempts[a].pc = "confirmBridge"
    /\ attempts' = [attempts EXCEPT ![a] = Failed]
    /\ UNCHANGED <<accounts, scenario, resolverVars, decoderVars, uiVars, tickets, messages>>

\* A lookup whose failure or empty answer is fatal to the attempt.
GetTransactionFatal(a, found) ==
    /\ attempts[a].pc = "getTransaction"
    /\ attempts' = [attempts EXCEPT ![a] =
                        IF found
                        THEN Finished([@ EXCEPT !.guid = TRUE], "done")
                        ELSE Failed]
    /\ UNCHANGED <<accounts, scenario, resolverVars, decoderVars, uiVars, tickets, messages>>

\* The lookup of the transaction details: the GUID is extracted when the
\* answer carries return data of the endpoint (found), whatever became of the
\* bridge operation; otherwise, or when the lookup throws, it is left
\* undefined.  The BridgeResult is returned either way.
GetTransaction(a, found) ==
    /\ attempts[a].pc = "getTransaction"
    /\ attempts' = [attempts EXCEPT ![a] = Finished([@ EXCEPT !.guid = found], "done")]
    /\ UNCHANGED <<accounts, scenario, resolverVars, decoderVars, uiVars, tickets, messages>>

\* The messaging configuration the bridge attempts run against: the direct
\* path, which reads no executor or validator account.
BridgeScenario ==
    [sendLib |-> Pointer(DEFAULT_MESSAGE_LIB),
     defaultLib |-> Pointer(deriveSimpleMessageLib),
     ulnPresent |-> TRUE,
     defaultCfg |-> NoSendConfig,
     overrideCfg |-> NoSendConfig,
     missing |-> ExecutorKeys \cup DvnKeys \cup PriceFeedKeys]

Init ==
    /\ scenario = BridgeScenario
    /\ accounts = LedgerOf(scenario)
    /\ call = Locals0
    /\ changes = 0
    /\ tickets = [t \in TicketPDAs |-> "None"]
    /\ messages = [t \in TicketPDAs |-> 0]
    /\ attempts = NoAttempts
    /\ buffer = NoBuffer
    /\ decoded = NotDecoded
    /\ hook = NoHook
    /\ inits = NoInits
    /\ polling = NoPolling

Next ==
    \/ \E a \in Attempts, v \in Variants, o \in Owners, id \in TicketIds :
            SendLockRejected(a, v, o, id)
    \/ \E a \in Attempts, v \in Variants, o \in Owners, id \in TicketIds, fails \in BOOLEAN :
            SendLockLanded(a, v, o, id, fails)
    \/ \E a \in Attempts : ConfirmLock(a)
    \/ \E a \in Attempts : ConfirmLockThrows(a)
    \/ \E a \in Attempts : SendBridgeRejected(a)
    \/ \E a \in Attempts, fails \in BOOLEAN : SendBridgeLanded(a, fails)
    \/ \E a \in Attempts : ConfirmBridge(a)
    \/ \E a \in Attempts : ConfirmBridgeThrows(a)
    \/ \E a \in Attempts, found \in BOOLEAN : GetTransaction(a, found)

Spec == Init /\ [][Next]_vars

-----------------------------------------------------------------------------
(* The resolver running against the ledger                                 *)

InitResolve ==
    /\ scenario \in Scenarios
    /\ accounts = LedgerOf(scenario)
    /\ call = Locals0
    /\ changes = 0
    /\ tickets = [t \in TicketPDAs |-> "None"]
    /\ messages = [t \in TicketPDAs |-> 0]
    /\ attempts = NoAttempts
    /\ buffer = NoBuffer
    /\ decoded = NotDecoded
    /\ hook = NoHook
    /\ inits = NoInits
    /\ polling = NoPolling

ResolveFetch1 ==
    /\ call.pc = "start"
    /\ call' = Phase1(accounts, ResolveParams, call)
    /\ UNCHANGED <<accounts, scenario, changes, bridgeVars, decoderVars>>

ResolveFetch2 ==
    /\ call.pc = "await2"
    /\ call' = Phase2(accounts, ResolveParams, call)
    /\ UNCHANGED <<accounts, scenario, changes, bridgeVars, decoderVars>>

ResolveFetch3 ==
    /\ call.pc = "await3"
    /\ call' = Phase3(accounts, ResolveParams, call)
    /\ UNCHANGED <<accounts, scenario, changes, bridgeVars, decoderVars>>

ResolveFetch4 ==
    /\ call.pc = "await4"
    /\ call' = Phase4(accounts, ResolveParams, call)
    /\ UNCHANGED <<accounts, scenario, changes, bridgeVars, decoderVars>>

\* The call of getSendAccounts was made by getQuoteAccounts, which goes on
\* with what it settled with.
ResolveQuote ==
    /\ call.pc = "done"
    /\ call' = [call EXCEPT !.pc = "quoted", !.result = getQuoteAccounts(call.result)]
    /\ UNCHANGED <<accounts, scenario, changes, bridgeVars, decoderVars>>

\* Other parties change the ledger between two fetches of a running call: a
\* DVN config account is closed, or rewritten under another owner with another
\* price feed.
ChangeKeys == {V1, V2}

OTHER_PROGRAM_ID == ProgramId(9)

LedgerClose(k) ==
    /\ call.pc \in {"await2", "await3", "await4"}
    /\ changes < MaxLedgerChanges
    /\ k \in DOMAIN accounts
    /\ accounts' = [j \in DOMAIN accounts \ {k} |-> accounts[j]]
    /\ changes' = changes + 1
    /\ UNCHANGED <<scenario, call, bridgeVars, decoderVars>>

LedgerRewrite(k) ==
    /\ call.pc \in {"await2", "await3", "await4"}
    /\ changes < MaxLedgerChanges
    /\ k \in DOMAIN accounts
    /\ accounts' = [accounts EXCEPT ![k] =
                        Account(OTHER_PROGRAM_ID, EncodeDvnConfig(2, <<>>, P1))]
    /\ changes' = changes + 1
    /\ UNCHANGED <<scenario, call, bridgeVars, decoderVars>>

NextResolve ==
    \/ ResolveFetch1
    \/ ResolveFetch2
    \/ ResolveFetch3
    \/ ResolveFetch4
    \/ ResolveQuote
    \/ \E k \in ChangeKeys : LedgerClose(k)
    \/ \E k \in ChangeKeys : LedgerRewrite(k)

SpecResolve == InitResolve /\ [][NextResolve]_vars

-----------------------------------------------------------------------------
(* The deserializers running on account data of any length                 *)

\* Well-formed records, laid out as the on-chain programs write them.
DecodeSendConfigs ==
    {SendConfig(e, r, o) :
        e \in {DEFAULT_MESSAGE_LIB, E1, E2},
        r \in SeqsUpTo({V1, V2}, MaxDvns),
        o \in SeqsUpTo({V3}, MaxDvns)}

\* The largest number of elements of an array of an executor or DVN config.
MaxArrayLength == 1

\* An array field: its 4-byte count and n elements of size bytes.
EncodeArray(n, size) == U32LE(n) \o Zeros(n * size)

\* An executor config whose five arrays have the lengths lens.
EncodeExecutorArrays(lens, priceFeed) ==
    Zeros(8) \o <<1>> \o Wallet1
        \o Concat([i \in 1..5 |-> EncodeArray(lens[i], 32)])
        \o <<0>> \o <<0, 0>> \o priceFeed

\* A DVN config whose signers, allowList, denyList, msglibs and admins have
\* the lengths lens.
EncodeDvnArrays(lens, priceFeed) ==
    Zeros(8) \o <<1, 0, 0, 0>> \o <<1>>
        \o EncodeArray(lens[1], 64) \o <<1>>
        \o EncodeArray(lens[2], 32) \o EncodeArray(lens[3], 32)
        \o <<0>>
        \o EncodeArray(lens[4], 32) \o EncodeArray(lens[5], 32)
        \o priceFeed

ArrayLengths == [1..5 -> 0..MaxArrayLength]

\* Price feeds of these configs.
PriceFeeds == {<<1>> \o Zeros(PUBLIC_KEY_LENGTH - 1), <<2>> \o Zeros(PUBLIC_KEY_LENGTH - 1)}

WellFormedConfigs ==
    {[kind |-> "ExecutorConfig", data |-> EncodeExecutorArrays(lens, pf)] :
        lens \in ArrayLengths, pf \in PriceFeeds}
    \cup {[kind |-> "DvnConfig", data |-> EncodeDvnArrays(lens, pf)] :
            lens \in ArrayLengths, pf \in PriceFeeds}

WellFormed ==
    {[kind |-> "SendLibraryConfig", data |-> EncodeSendLibraryConfig(lib)] :
        lib \in {DEFAULT_MESSAGE_LIB, deriveSimpleMessageLib, deriveUlnMessageLib}}
    \cup {[kind |-> "SendConfig", data |-> EncodeSendConfig(cfg)] : cfg \in DecodeSendConfigs}
    \cup {[kind |-> "ExecutorConfig", data |-> EncodeExecutorConfig(Wallet1, admins, P1)] :
            admins \in SeqsUpTo({Wallet2}, 1)}
    \cup {[kind |-> "DvnConfig", data |-> EncodeDvnConfig(signers, admins, P2)] :
            signers \in 0..1, admins \in SeqsUpTo({Wallet2}, 1)}

\* An account whose data stops early: the first n bytes of a record.
Prefix(b, n) == [kind |-> b.kind, data |-> SubSeq(b.data, 1, n)]

Truncations ==
    LET samples == {[kind |-> "SendLibraryConfig",
                     data |-> EncodeSendLibraryConfig(deriveUlnMessageLib)],
                    [kind |-> "SendConfig",
                     data |-> EncodeSendConfig(SendConfig(E2, <<V1>>, <<>>))],
                    [kind |-> "SendConfig",
                     data |-> EncodeSendConfig(SendConfig(E2, <<V1>>, <<V3>>))],
                    [kind |-> "ExecutorConfig",
                     data |-> EncodeExecutorConfig(Wallet1, <<Wallet2>>, P1)],
                    [kind |-> "DvnConfig", data |-> EncodeDvnConfig(0, <<Wallet2>>, P2)]}
    IN  UNION {{Prefix(b, n) : n \in 0..(Len(b.data) - 1)} : b \in samples}

\* An account whose 4-byte count at offset says n elements.
WithCount(b, offset, n) ==
    [kind |-> b.kind,
     data |-> SubSeq(b.data, 1, offset) \o U32LE(n)
                \o SubSeq(b.data, offset + 5, Len(b.data))]

\* Accounts whose array count is larger than the elements that follow it: the
\* required and the optional count of a send config, the last array of an
\* executor config and of a DVN config.
Overcounted ==
    LET sendConfig(e, o) == [kind |-> "SendConfig",
                             data |-> EncodeSendConfig(SendConfig(e, <<V1>>, o))]
        executorConfig == [kind |-> "ExecutorConfig",
                           data |-> EncodeExecutorConfig(Wallet1, <<>>, P1)]
        dvnConfig == [kind |-> "DvnConfig", data |-> EncodeDvnConfig(0, <<>>, P2)]
    IN  {WithCount(sendConfig(e, <<>>), 20, n) : e \in {DEFAULT_MESSAGE_LIB, E1}, n \in 2..3}
        \cup {WithCount(sendConfig(E2, o), 24 + 32 + 32 * Len(o), Len(o) + k) :
                o \in SeqsUpTo({V3}, 1), k \in 1..2}
        \cup {WithCount(executorConfig, 57, n) : n \in 1..2}
        \cup {WithCount(dvnConfig, 31, n) : n \in 1..2}

DecodeInputs == WellFormed \cup WellFormedConfigs \cup Truncations \cup Overcounted

InitDecode ==
    /\ scenario = BridgeScenario
    /\ accounts = LedgerOf(scenario)
    /\ call = Locals0
    /\ changes = 0
    /\ tickets = [t \in TicketPDAs |-> "None"]
    /\ messages = [t \in TicketPDAs |-> 0]
    /\ attempts = NoAttempts
    /\ buffer \in DecodeInputs
    /\ decoded = NotDecoded
    /\ hook = NoHook
    /\ inits = NoInits
    /\ polling = NoPolling

\* The resolver hands the data of a fetched account to the deserializer of its kind.
Decode ==
    /\ decoded = NotDecoded
    /\ decoded' = Deserialize(buffer.kind, buffer.data)
    /\ UNCHANGED <<accounts, scenario, resolverVars, bridgeVars, buffer>>

NextDecode == Decode

SpecDecode == InitDecode /\ [][NextDecode]_vars

-----------------------------------------------------------------------------
(* useBridge().bridge: the vault check and initialization before the lock  *)

Mint1 == Rep(120)

deriveTokenVaultPDA(mint) == findProgramAddressSync("TokenVault", Fp(mint), BRIDGE_PROGRAM_ID_PK)

\* The ledger after the bridge program's initVault has created the vault of mint.
WithVault(accts, mint) ==
    [k \in DOMAIN accts \cup {deriveTokenVaultPDA(mint)} |->
        IF k = deriveTokenVaultPDA(mint) THEN Account(BRIDGE_PROGRAM_ID_PK, <<>>) ELSE accts[k]]

\* The ledger has a vault for the asset.
VaultOnLedger == deriveTokenVaultPDA(Mint1) \in DOMAIN accounts

\* A tokenMint that is no public key: the empty string.
NotAMint == <<>>

\* The assets a caller may name: a mint, given as the key its string decodes
\* to, and a string that decodes to no key.
TokenMints == {Mint1, NotAMint}

\* new PublicKey(tokenMint) accepts the string.
IsPublicKey(tokenMint) == Len(tokenMint) = PUBLIC_KEY_LENGTH

\* checkVaultStatus: new PublicKey(tokenMint) runs before the try block, so a
\* tokenMint that is no public key rejects the call.  Otherwise exists is
\* whether the vault account was fetched; a fetch that throws is reported as a
\* vault that does not exist.
checkVaultStatus(accts, mint, fetchThrows) ==
    IF ~IsPublicKey(mint)
    THEN [ok |-> FALSE, exists |-> FALSE]
    ELSE [ok |-> TRUE,
          exists |-> ~fetchThrows /\ getAccountInfo(accts, deriveTokenVaultPDA(mint)).exists]

HookStart == [NoHook EXCEPT !.pc = "start"]

\* The value Buffer.from(string, 'hex') gives a UTF-16 code unit: the hex
\* decoder looks at the low byte of the code unit only, and gives the value of
\* the hexadecimal digit that byte is, -1 when it is none.
HexValue(c) ==
    LET b == c % 256
    IN  IF b >= 48 /\ b <= 57 THEN b - 48
        ELSE IF b >= 97 /\ b <= 102 THEN b - 87
        ELSE IF b >= 65 /\ b <= 70 THEN b - 55
        ELSE -1

\* Buffer.from(chars, 'hex'): one byte per pair of hexadecimal digits, up to the
\* first pair that is not one; a last single character is dropped.
RECURSIVE BufferFromHex(_)
BufferFromHex(chars) ==
    IF Len(chars) < 2 \/ HexValue(chars[1]) < 0 \/ HexValue(chars[2]) < 0
    THEN <<>>
    ELSE <<16 * HexValue(chars[1]) + HexValue(chars[2])>> \o BufferFromHex(Tail(Tail(chars)))

\* recipientAddress without its '0x'.
CleanAddress(recipientAddress) ==
    IF Len(recipientAddress) >= 2 /\ recipientAddress[1] = 48 /\ recipientAddress[2] = 120
    THEN Tail(Tail(recipientAddress))
    ELSE recipientAddress

\* recipientBytes: 32 zero bytes with the decoded address set at offset 12;
\* Uint8Array.set throws a RangeError when the address does not fit.
EncodeRecipient(recipientAddress) ==
    LET addressBytes == BufferFromHex(CleanAddress(recipientAddress))
    IN  IF 12 + Len(addressBytes) > 32
        THEN RangeError
        ELSE [ok |-> TRUE,
              recipientBytes |-> Zeros(12) \o addressBytes \o Zeros(32 - 12 - Len(addressBytes))]

\* Recipient addresses, as their character codes: a 20-byte address with and
\* without '0x', one of 21 and one of 32 bytes, one with a character that is
\* no hexadecimal digit in the middle and at the start, one whose last byte is
\* written with U+0130, a character whose low byte is that of '0', and the
\* empty string.
Recipients ==
    LET ab(n) == Concat([i \in 1..n |-> <<97, 98>>])
    IN  {ab(20), <<48, 120>> \o ab(20), <<48, 120>> \o ab(21), ab(32),
         <<48, 120>> \o ab(10) \o <<103, 104>> \o ab(9), <<122>> \o ab(20),
         ab(19) \o <<304, 49>>, <<>>}

\* The wallet is not connected, or no program can be built for it: bridge
\* returns null before anything is read or submitted.
HookNoWallet ==
    /\ hook.pc = "start"
    /\ hook' = [hook EXCEPT !.pc = "null"]
    /\ UNCHANGED <<accounts, scenario, resolverVars, decoderVars, tickets, messages, attempts, inits, polling>>

\* bridge sets bridging, builds the program and calls checkVaultStatus, whose
\* answer it awaits.
HookBridgeStart ==
    /\ hook.pc = "start"
    /\ hook' = [hook EXCEPT !.pc = "checkStatus", !.bridging = TRUE]
    /\ UNCHANGED <<accounts, scenario, resolverVars, decoderVars, tickets, messages, attempts, inits, polling>>

\* initVault settles with a result whichever way its body ended.
SettleInitVault(h, result) ==
    [h EXCEPT !.pc = "execute", !.initResult = result, !.initializingVault = FALSE]

\* initializeVault's submission is rejected: initVault catches the error and
\* returns null, and bridge goes on.
InitVaultRejected ==
    /\ hook.pc = "initVault"
    /\ hook' = SettleInitVault([hook EXCEPT !.init = "rejected"], "null")
    /\ UNCHANGED <<accounts, scenario, resolverVars, decoderVars, tickets, messages, attempts, inits, polling>>

\* initializeVault's submission is accepted and executed by the ledger, which
\* creates the vault unless it exists or the operation fails otherwise.
InitVaultLanded(fails) ==
    /\ hook.pc = "initVault"
    /\ LET ok == ~fails /\ ~VaultOnLedger
       IN  /\ accounts' = IF ok THEN WithVault(accounts, Mint1) ELSE accounts
           /\ hook' = [hook EXCEPT !.pc = "confirmInit", !.init = IF ok THEN "ok" ELSE "err"]
    /\ UNCHANGED <<scenario, resolverVars, decoderVars, tickets, messages, attempts, inits, polling>>

\* confirmTransaction resolves, its result is not looked at; initVault calls
\* checkVault, which sets checkingVault.
InitVaultConfirm ==
    /\ hook.pc = "confirmInit"
    /\ hook' = [hook EXCEPT !.pc = "checkVault", !.checkingVault = TRUE]
    /\ UNCHANGED <<accounts, scenario, resolverVars, decoderVars, tickets, messages, attempts, inits, polling>>

\* checkVault settles: the status it fetched is kept for display, a fetch that
\* throws being reported as no vault; initVault returns the signature, and
\* bridge goes on.
InitVaultCheckVault(fetchThrows) ==
    /\ hook.pc = "checkVault"
    /\ LET status == checkVaultStatus(accounts, hook.tokenMint, fetchThrows)
       IN  hook' = SettleInitVault(
                       [hook EXCEPT !.checkingVault = FALSE,
                                    !.vaultStatus = IF status.exists THEN "exists"
                                                    ELSE "absent"],
                       "signature")
    /\ UNCHANGED <<accounts, scenario, resolverVars, decoderVars, tickets, messages, attempts, inits, polling>>

\* confirmTransaction throws: initVault catches the error and returns null.
InitVaultConfirmThrows ==
    /\ hook.pc = "confirmInit"
    /\ hook' = SettleInitVault(hook, "null")
    /\ UNCHANGED <<accounts, scenario, resolverVars, decoderVars, tickets, messages, attempts, inits, polling>>

\* bridge calls executeBridgeWithSendTransaction, whose lock submission is rejected.
HookLockRejected(o, id) ==
    /\ hook.pc = "execute"
    /\ SendLockRejected(1, "sendTransaction", o, id)

\* bridge calls executeBridgeWithSendTransaction, whose lock submission lands;
\* the lock operation fails on a ledger that has no vault for the asset.
HookLockLanded(o, id, fails) ==
    /\ hook.pc = "execute"
    /\ ~VaultOnLedger => fails
    /\ SendLockLanded(1, "sendTransaction", o, id, fails)

\* confirmTransaction of the lock resolves and the recipient is encoded.
HookConfirmLock ==
    /\ EncodeRecipient(hook.recipient).ok
    /\ ConfirmLock(1)

\* confirmTransaction of the lock resolves and the encoding of the recipient
\* throws: the call ends, after the lock.
HookEncodeRecipientThrows ==
    /\ attempts[1].pc = "confirmLock"
    /\ ~EncodeRecipient(hook.recipient).ok
    /\ attempts' = [attempts EXCEPT ![1] = Failed]
    /\ UNCHANGED <<accounts, scenario, resolverVars, decoderVars, uiVars, tickets, messages>>

\* bridge settles with the result of executeBridgeWithSendTransaction, or with
\* null when it threw.
SettleBridgeInTry(h, result) ==
    [h EXCEPT !.pc = "settled",
              !.bridging = IF result = "null" THEN h.bridging ELSE FALSE]

SettleBridge(h, result) == [h EXCEPT !.pc = "settled", !.bridging = FALSE]

\* The status check settles.  When it rejects, bridge catches the error and
\* returns null; initVault is called when it reports no vault, and sets
\* initializingVault.
HookCheckVault(fetchThrows) ==
    /\ hook.pc = "checkStatus"
    /\ LET vault == checkVaultStatus(accounts, hook.tokenMint, fetchThrows)
       IN  hook' = IF ~vault.ok THEN SettleBridge(hook, "null")
                   ELSE [hook EXCEPT !.exists = vault.exists,
                                     !.initializingVault = IF vault.exists THEN @ ELSE TRUE,
                                     !.pc = IF vault.exists THEN "execute" ELSE "initVault"]
    /\ UNCHANGED <<accounts, scenario, resolverVars, decoderVars, tickets, messages, attempts, inits, polling>>

\* checkVault is called on its own, before, during or after the call of
\* bridge: it sets checkingVault and awaits the status.
CheckVaultCall ==
    /\ hook.check = "none"
    /\ hook' = [hook EXCEPT !.check = "running", !.checkingVault = TRUE]
    /\ UNCHANGED <<accounts, scenario, resolverVars, decoderVars, tickets, messages, attempts, inits, polling>>

\* The checkVault called on its own settles: it stores the status and resolves,
\* or rethrows the rejection of checkVaultStatus; checkingVault is cleared
\* either way.
CheckVaultSettles(fetchThrows) ==
    /\ hook.check = "running"
    /\ LET status == checkVaultStatus(accounts, hook.tokenMint, fetchThrows)
       IN  hook' = IF status.ok
                   THEN [hook EXCEPT !.check = "resolved", !.checkingVault = FALSE,
                                     !.vaultStatus = IF status.exists THEN "exists"
                                                     ELSE "absent"]
                   ELSE [hook EXCEPT !.check = "rejected", !.checkingVault = FALSE]
    /\ UNCHANGED <<accounts, scenario, resolverVars, decoderVars, tickets, messages, attempts, inits, polling>>

\* initVault is called on its own while the wallet is not connected: it
\* returns null before it sets a flag.
OwnInitVaultNoWallet ==
    /\ hook.own = "none"
    /\ hook' = [hook EXCEPT !.own = "settled", !.ownResult = "null"]
    /\ UNCHANGED <<accounts, scenario, resolverVars, decoderVars, tickets, messages, attempts, inits, polling>>

\* initVault is called on its own, before, during or after the call of bridge:
\* it sets initializingVault and calls initializeVault.
OwnInitVaultCall ==
    /\ hook.own = "none"
    /\ hook' = [hook EXCEPT !.own = "initVault", !.initializingVault = TRUE]
    /\ UNCHANGED <<accounts, scenario, resolverVars, decoderVars, tickets, messages, attempts, inits, polling>>

\* The initVault called on its own settles with a result whichever way its
\* body ended.
SettleOwnInitVault(h, result) ==
    [h EXCEPT !.own = "settled", !.ownResult = result, !.initializingVault = FALSE]

\* initializeVault rejects, for a tokenMint that is no public key or because
\* its submission is rejected: initVault catches the error and returns null.
OwnInitVaultRejected ==
    /\ hook.own = "initVault"
    /\ hook' = SettleOwnInitVault(hook, "null")
    /\ UNCHANGED <<accounts, scenario, resolverVars, decoderVars, tickets, messages, attempts, inits, polling>>

\* initializeVault's submission is accepted and executed by the ledger, which
\* creates the vault unless it exists or the operation fails otherwise.
OwnInitVaultLanded(fails) ==
    /\ hook.own = "initVault"
    /\ IsPublicKey(hook.tokenMint)
    /\ accounts' = IF ~fails /\ ~VaultOnLedger THEN WithVault(accounts, Mint1) ELSE accounts
    /\ hook' = [hook EXCEPT !.own = "confirmInit"]
    /\ UNCHANGED <<scenario, resolverVars, decoderVars, tickets, messages, attempts, inits, polling>>

\* confirmTransaction resolves, its result is not looked at; initVault calls
\* checkVault, which sets checkingVault.
OwnInitVaultConfirm ==
    /\ hook.own = "confirmInit"
    /\ hook' = [hook EXCEPT !.own = "checkVault", !.checkingVault = TRUE]
    /\ UNCHANGED <<accounts, scenario, resolverVars, decoderVars, tickets, messages, attempts, inits, polling>>

\* confirmTransaction throws: initVault catches the error and returns null.
OwnInitVaultConfirmThrows ==
    /\ hook.own = "confirmInit"
    /\ hook' = SettleOwnInitVault(hook, "null")
    /\ UNCHANGED <<accounts, scenario, resolverVars, decoderVars, tickets, messages, attempts, inits, polling>>

\* The checkVault of the initVault called on its own settles, and initVault
\* returns the signature.
OwnInitVaultCheckVault(fetchThrows) ==
    /\ hook.own = "checkVault"
    /\ LET status == checkVaultStatus(accounts, hook.tokenMint, fetchThrows)
       IN  hook' = SettleOwnInitVault(
                       [hook EXCEPT !.checkingVault = FALSE,
                                    !.vaultStatus = IF status.exists THEN "exists"
                                                    ELSE "absent"],
                       "signature")
    /\ UNCHANGED <<accounts, scenario, resolverVars, decoderVars, tickets, messages, attempts, inits, polling>>

\* executeBridgeWithSendTransaction has settled, and bridge with it.
HookSettle ==
    /\ hook.pc = "execute"
    /\ attempts[1].pc \in {"done", "failed"}
    /\ hook' = SettleBridge(hook, IF attempts[1].pc = "done" THEN "result" ELSE "null")
    /\ UNCHANGED <<accounts, scenario, resolverVars, decoderVars, tickets, messages, attempts, inits, polling>>

InitHook ==
    /\ scenario = BridgeScenario
    /\ accounts \in {LedgerOf(scenario), WithVault(LedgerOf(scenario), Mint1)}
    /\ call = Locals0
    /\ changes = 0
    /\ tickets = [t \in TicketPDAs |-> "None"]
    /\ messages = [t \in TicketPDAs |-> 0]
    /\ attempts = NoAttempts
    /\ buffer = NoBuffer
    /\ decoded = NotDecoded
    /\ hook \in {[HookStart EXCEPT !.recipient = r, !.tokenMint = m] :
                    r \in Recipients, m \in TokenMints}
    /\ inits = NoInits
    /\ polling = NoPolling

NextHook ==
    \/ HookNoWallet
    \/ HookBridgeStart
    \/ \E fetchThrows \in BOOLEAN : HookCheckVault(fetchThrows)
    \/ InitVaultRejected
    \/ \E fails \in BOOLEAN : InitVaultLanded(fails)
    \/ InitVaultConfirm
    \/ \E fetchThrows \in BOOLEAN : InitVaultCheckVault(fetchThrows)
    \/ InitVaultConfirmThrows
    \/ \E o \in Owners, id \in TicketIds : HookLockRejected(o, id)
    \/ \E o \in Owners, id \in TicketIds, fails \in BOOLEAN : HookLockLanded(o, id, fails)
    \/ HookConfirmLock
    \/ HookEncodeRecipientThrows
    \/ ConfirmLockThrows(1)
    \/ SendBridgeRejected(1)
    \/ \E fails \in BOOLEAN : SendBridgeLanded(1, fails)
    \/ ConfirmBridge(1)
    \/ ConfirmBridgeThrows(1)
    \/ \E found \in BOOLEAN : GetTransaction(1, found)
    \/ HookSettle
    \/ CheckVaultCall
    \/ \E fetchThrows \in BOOLEAN : CheckVaultSettles(fetchThrows)
    \/ OwnInitVaultNoWallet
    \/ OwnInitVaultCall
    \/ OwnInitVaultRejected
    \/ \E fails \in BOOLEAN : OwnInitVaultLanded(fails)
    \/ OwnInitVaultConfirm
    \/ OwnInitVaultConfirmThrows
    \/ \E fetchThrows \in BOOLEAN : OwnInitVaultCheckVault(fetchThrows)

SpecHook == InitHook /\ [][NextHook]_vars

-----------------------------------------------------------------------------
(* useBridge().initVault called by several callers for one asset           *)

\* A caller checks the vault and calls initVault when it is absent; initVault
\* sets initializingVault.
CallerChecks(c, fetchThrows) ==
    /\ inits[c].pc = "none"
    /\ LET exists == checkVaultStatus(accounts, Mint1, fetchThrows).exists
       IN  inits' = [inits EXCEPT ![c] =
                        [@ EXCEPT !.pc = IF exists THEN "skip" ELSE "initVault",
                                  !.initializingVault = IF exists THEN @ ELSE TRUE]]
    /\ UNCHANGED <<accounts, scenario, resolverVars, decoderVars, tickets, messages, attempts,
                   hook, polling>>

\* initializeVault's submission is rejected, by the wallet or the RPC node
\* (external), or by the preflight simulation because the vault account is
\* already in use (exists).  initVault catches the error and returns null.
CallerInitRejected(c, cause) ==
    /\ inits[c].pc = "initVault"
    /\ cause = "exists" => VaultOnLedger
    /\ inits' = [inits EXCEPT ![c] = [@ EXCEPT !.pc = "settled", !.result = "null",
                                               !.cause = cause,
                                               !.initializingVault = FALSE]]
    /\ UNCHANGED <<accounts, scenario, resolverVars, decoderVars, tickets, messages, attempts,
                   hook, polling>>

\* initializeVault's submission is accepted and executed by the ledger, which
\* creates the vault unless it exists (exists) or the operation fails
\* otherwise (external).
CallerInitLanded(c, fails) ==
    /\ inits[c].pc = "initVault"
    /\ LET ok == ~fails /\ ~VaultOnLedger
       IN  /\ accounts' = IF ok THEN WithVault(accounts, Mint1) ELSE accounts
           /\ inits' = [inits EXCEPT ![c] =
                            [@ EXCEPT !.pc = "confirmInit",
                                      !.landed = IF ok THEN "ok" ELSE "err",
                                      !.cause = IF ok THEN "none"
                                                ELSE IF VaultOnLedger THEN "exists"
                                                ELSE "external"]]
    /\ UNCHANGED <<scenario, resolverVars, decoderVars, tickets, messages, attempts,
                   hook, polling>>

\* confirmTransaction resolves, its result is not looked at: initVault reports
\* success and calls checkVault, which sets checkingVault.
CallerInitConfirm(c) ==
    /\ inits[c].pc = "confirmInit"
    /\ inits' = [inits EXCEPT ![c] = [@ EXCEPT !.pc = "checkVault", !.checkingVault = TRUE]]
    /\ UNCHANGED <<accounts, scenario, resolverVars, decoderVars, tickets, messages, attempts,
                   hook, polling>>

\* checkVault stores the status it read; initVault returns the signature.
CallerCheckVault(c, fetchThrows) ==
    /\ inits[c].pc = "checkVault"
    /\ inits' = [inits EXCEPT ![c] =
                    [@ EXCEPT !.pc = "settled", !.result = "signature",
                              !.checkingVault = FALSE,
                              !.initializingVault = FALSE,
                              !.vaultStatus =
                                  IF checkVaultStatus(accounts, Mint1, fetchThrows).exists
                                  THEN "exists" ELSE "absent"]]
    /\ UNCHANGED <<accounts, scenario, resolverVars, decoderVars, tickets, messages, attempts,
                   hook, polling>>

\* confirmTransaction throws: initVault catches the error and returns null.
CallerInitConfirmThrows(c) ==
    /\ inits[c].pc = "confirmInit"
    /\ inits' = [inits EXCEPT ![c] = [@ EXCEPT !.pc = "settled", !.result = "null",
                                               !.cause = "external",
                                               !.initializingVault = FALSE]]
    /\ UNCHANGED <<accounts, scenario, resolverVars, decoderVars, tickets, messages, attempts,
                   hook, polling>>

InitInit ==
    /\ scenario = BridgeScenario
    /\ accounts = LedgerOf(scenario)
    /\ call = Locals0
    /\ changes = 0
    /\ tickets = [t \in TicketPDAs |-> "None"]
    /\ messages = [t \in TicketPDAs |-> 0]
    /\ attempts = NoAttempts
    /\ buffer = NoBuffer
    /\ decoded = NotDecoded
    /\ hook = NoHook
    /\ inits = NoInits
    /\ polling = NoPolling

NextInit ==
    \/ \E c \in Callers, fetchThrows \in BOOLEAN : CallerChecks(c, fetchThrows)
    \/ \E c \in Callers, cause \in {"external", "exists"} : CallerInitRejected(c, cause)
    \/ \E c \in Callers, fails \in BOOLEAN : CallerInitLanded(c, fails)
    \/ \E c \in Callers : CallerInitConfirm(c)
    \/ \E c \in Callers, fetchThrows \in BOOLEAN : CallerCheckVault(c, fetchThrows)
    \/ \E c \in Callers : CallerInitConfirmThrows(c)

SpecInit == InitInit /\ [][NextInit]_vars

-----------------------------------------------------------------------------
(* Status polling of the ticket payments (useTEEProof.ts)                   *)

\* The status requests of one ticketIndex that may be awaiting their response
\* at one time.
MaxInFlight == 2

pollingRest == <<accounts, scenario, resolverVars, decoderVars, tickets, messages,
                 attempts, hook, inits>>

\* What the status service reports for a swap.
StatusOf(swap) ==
    [status |-> swap, isComplete |-> swap # "PENDING", isSuccess |-> swap = "SUCCESS",
     isFailed |-> swap = "FAILED"]

\* setDepositState changes the payment stored at a ticketIndex, when the page
\* is mounted and a payment is stored there.
SetPayment(t, status) ==
    IF polling.mounted /\ t.payment # "none" THEN [t EXCEPT !.payment = status] ELSE t

\* startStatusPolling(depositAddress, ticketIndex) on the state t of the
\* ticketIndex: an interval registered for the index is cleared, the payment
\* stored at the index (if any) is confirming, and a new interval that polls
\* depositAddress is registered.
startStatusPolling(t, depositAddress) ==
    [SetPayment(t, "confirming") EXCEPT !.runs = t.runs + 1,
                                        !.timer = t.runs + 1,
                                        !.addressOf[t.runs + 1] = depositAddress]

\* The calls of startStatusPolling made and still to be made by the calls of
\* handleGenerateDepositAddress that await their quote.
RunsClaimed(i) == polling.ticket[i].runs + polling.quoting

\* handleGenerateDepositAddress is called: it asks the quote service for a
\* deposit address and awaits the answer.
HandleGenerateDepositAddress ==
    /\ polling.issued + polling.quoting < MaxRuns
    /\ \A i \in TicketIndexes : RunsClaimed(i) < MaxRuns
    /\ polling' = [polling EXCEPT !.quoting = @ + 1]
    /\ UNCHANGED pollingRest

\* The quote arrives and handleGenerateDepositAddress goes on, whatever has
\* happened to the page meanwhile: the payments are stored in place of the
\* ones there were (when the page is mounted), and startStatusPolling is called
\* for each of them.
DepositAddressGenerated ==
    /\ polling.quoting > 0
    /\ LET address == polling.issued + 1
       IN  polling' =
               [polling EXCEPT
                   !.quoting = @ - 1,
                   !.issued = address,
                   !.ticket = [i \in TicketIndexes |->
                       startStatusPolling(
                           IF polling.mounted
                           THEN [polling.ticket[i] EXCEPT !.payment = "waiting-payment",
                                                          !.depositAddress = address]
                           ELSE polling.ticket[i],
                           address)]]
    /\ UNCHANGED pollingRest

\* The quote request throws: handleGenerateDepositAddress reports the error,
\* and stores and polls nothing.
DepositAddressGenerationThrows ==
    /\ polling.quoting > 0
    /\ polling' = [polling EXCEPT !.quoting = @ - 1]
    /\ UNCHANGED pollingRest

\* startStatusPolling is called for an index with a deposit address, one issued
\* to the page or another one, whatever is stored at the index.
StartStatusPolling(i, depositAddress) ==
    /\ depositAddress \in (1..polling.issued) \cup {OtherAddress}
    /\ RunsClaimed(i) < MaxRuns
    /\ polling' = [polling EXCEPT !.ticket[i] = startStatusPolling(@, depositAddress)]
    /\ UNCHANGED pollingRest

\* resetDepositFlow: the payments and the completed tickets are emptied (when
\* the page is mounted); the intervals stay registered.
ResetDepositFlow ==
    /\ polling' =
            IF polling.mounted
            THEN [polling EXCEPT !.completedTickets = 0,
                                 !.ticket = [i \in TicketIndexes |->
                                     [polling.ticket[i] EXCEPT !.payment = "none",
                                                               !.depositAddress = 0]]]
            ELSE polling
    /\ UNCHANGED pollingRest

\* The page is unmounted: every interval is cleared.  The callbacks that are
\* awaiting an answer go on, and what they set in the state of the page is
\* dropped.
Unmount ==
    /\ polling.mounted
    /\ polling' = [polling EXCEPT !.mounted = FALSE,
                                  !.ticket = [i \in TicketIndexes |->
                                      [polling.ticket[i] EXCEPT !.timer = 0]]]
    /\ UNCHANGED pollingRest

\* The swap of a deposit address reaches one of its final states at the service.
SwapSettles(a, outcome) ==
    /\ polling.swap[a] = "PENDING"
    /\ polling' = [polling EXCEPT !.swap[a] = outcome]
    /\ UNCHANGED pollingRest

\* The status requests of a ticketIndex that are awaiting their response, of
\* the runs up to n.
RECURSIVE Awaited(_, _)
Awaited(t, n) == IF n = 0 THEN 0 ELSE t.inFlight[n] + Awaited(t, n - 1)

\* The interval fires: its callback calls checkSwapStatus and awaits it.
PollTick(i) ==
    /\ polling.ticket[i].timer # 0
    /\ Awaited(polling.ticket[i], MaxRuns) < MaxInFlight
    /\ polling' = [polling EXCEPT !.ticket[i].inFlight[polling.ticket[i].timer] = @ + 1]
    /\ UNCHANGED pollingRest

\* generateTicketFromTEE is called, by a callback of run g or from outside of a
\* run: it sets isGeneratingTicket and awaits the proof.
generateTicketFromTEE(t, g) ==
    [t EXCEPT !.generating[g] = @ + 1, !.generations[g] = @ + 1]

\* generateTicketFromTEE is called from outside of a run, with a deposit
\* address.
CallGenerateTicketFromTEE(i, depositAddress) ==
    /\ depositAddress \in (1..polling.issued) \cup {OtherAddress}
    /\ polling.ticket[i].direct < MaxDirectCalls
    /\ LET t == polling.ticket[i]
           g == MaxRuns + t.direct + 1
       IN  polling' = [polling EXCEPT !.ticket[i] =
               generateTicketFromTEE(
                   [t EXCEPT !.direct = @ + 1, !.addressOf[g] = depositAddress], g)]
    /\ UNCHANGED pollingRest

\* A status response arrives at a callback of run r and the rest of the
\* callback runs: on a complete status the interval registered for the index
\* is cleared, and on a successful one the payment is generating its proof and
\* generateTicketFromTEE is called.
StatusResponse(i, r) ==
    /\ polling.ticket[i].inFlight[r] > 0
    /\ LET t == polling.ticket[i]
           status == StatusOf(polling.swap[t.addressOf[r]])
           received == [t EXCEPT !.inFlight[r] = @ - 1]
           cleared == [received EXCEPT !.timer = 0]
       IN  polling' = [polling EXCEPT !.ticket[i] =
               IF ~status.isComplete THEN received
               ELSE IF status.isSuccess
                    THEN generateTicketFromTEE(SetPayment(cleared, "generating-proof"), r)
                    ELSE SetPayment(cleared, "waiting-payment")]
    /\ UNCHANGED pollingRest

\* checkSwapStatus throws: the callback logs the error and ends.
StatusRequestThrows(i, r) ==
    /\ polling.ticket[i].inFlight[r] > 0
    /\ polling' = [polling EXCEPT !.ticket[i].inFlight[r] = @ - 1]
    /\ UNCHANGED pollingRest

\* The verified proof arrives at the call g of generateTicketFromTEE: the
\* payment that has the deposit address of the call is completed and the ticket
\* is appended to completedTickets; all of it is dropped when the page is
\* unmounted.
ProofGenerated(i, g) ==
    /\ polling.ticket[i].generating[g] > 0
    /\ LET t == [polling.ticket[i] EXCEPT !.generating[g] = @ - 1]
           found == t.depositAddress = t.addressOf[g]
           stored == IF found THEN SetPayment(t, "completed") ELSE t
       IN  polling' =
               IF polling.mounted
               THEN [polling EXCEPT !.completedTickets = @ + 1,
                                    !.ticket[i] = [stored EXCEPT !.appended[g] = @ + 1]]
               ELSE [polling EXCEPT !.ticket[i] = t]
    /\ UNCHANGED pollingRest

\* The proof generation throws, or its result is not verified: nothing is
\* appended.
ProofGenerationThrows(i, g) ==
    /\ polling.ticket[i].generating[g] > 0
    /\ polling' = [polling EXCEPT !.ticket[i].generating[g] = @ - 1]
    /\ UNCHANGED pollingRest

InitPolling ==
    /\ scenario = BridgeScenario
    /\ accounts = LedgerOf(scenario)
    /\ call = Locals0
    /\ changes = 0
    /\ tickets = [t \in TicketPDAs |-> "None"]
    /\ messages = [t \in TicketPDAs |-> 0]
    /\ attempts = NoAttempts
    /\ buffer = NoBuffer
    /\ decoded = NotDecoded
    /\ hook = NoHook
    /\ inits = NoInits
    /\ polling = NoPolling

NextPolling ==
    \/ HandleGenerateDepositAddress
    \/ DepositAddressGenerated
    \/ DepositAddressGenerationThrows
    \/ \E i \in TicketIndexes, a \in Addresses : StartStatusPolling(i, a)
    \/ ResetDepositFlow
    \/ Unmount
    \/ \E a \in Addresses, outcome \in {"SUCCESS", "FAILED", "REFUNDED"} :
            SwapSettles(a, outcome)
    \/ \E i \in TicketIndexes : PollTick(i)
    \/ \E i \in TicketIndexes, a \in Addresses : CallGenerateTicketFromTEE(i, a)
    \/ \E i \in TicketIndexes, r \in Runs : StatusResponse(i, r)
    \/ \E i \in TicketIndexes, r \in Runs : StatusRequestThrows(i, r)
    \/ \E i \in TicketIndexes, g \in Generators : ProofGenerated(i, g)
    \/ \E i \in TicketIndexes, g \in Generators : ProofGenerationThrows(i, g)

SpecPolling == InitPolling /\ [][NextPolling]_vars

\* Every caller that called initVault has its answer.
InitsSettled == \A c \in Callers : inits[c].pc = "settled"

\* C21: when two callers run the vault initialization concurrently for one
\* asset, exactly one vault account exists afterwards and both observe success:
\* finding the account already created is success, not an error.
C21_RacingInitSucceeds ==
    (InitsSettled /\ \A c \in Callers : inits[c].cause # "external")
        => (VaultOnLedger /\ \A c \in Callers : inits[c].result = "signature")

-----------------------------------------------------------------------------
(* bridge.ts: the token name and symbol of the bridge payload              *)

\* A string is the sequence of its UTF-16 code units, which is what
\* String.prototype.slice counts.  The code points of a string: a high
\* surrogate followed by a low one is one code point, a lone surrogate is
\* written as U+FFFD when the string is encoded.
RECURSIVE CodePoints(_)
CodePoints(units) ==
    IF units = <<>> THEN <<>>
    ELSE LET u == Head(units)
             high == u >= 55296 /\ u <= 56319
             low == u >= 56320 /\ u <= 57343
         IN  IF high /\ Len(units) >= 2 /\ units[2] >= 56320 /\ units[2] <= 57343
             THEN <<65536 + (u - 55296) * 1024 + (units[2] - 56320)>>
                    \o CodePoints(Tail(Tail(units)))
             ELSE <<IF high \/ low THEN 65533 ELSE u>> \o CodePoints(Tail(units))

\* The UTF-8 bytes of a code point.
Utf8(cp) ==
    IF cp < 128 THEN <<cp>>
    ELSE IF cp < 2048 THEN <<192 + (cp \div 64), 128 + (cp % 64)>>
    ELSE IF cp < 65536
         THEN <<224 + (cp \div 4096), 128 + ((cp \div 64) % 64), 128 + (cp % 64)>>
         ELSE <<240 + (cp \div 262144), 128 + ((cp \div 4096) % 64),
                128 + ((cp \div 64) % 64), 128 + (cp % 64)>>

\* The bytes of a string field of the serialized instruction.
Utf8Encode(units) ==
    LET cps == CodePoints(units) IN Concat([i \in 1..Len(cps) |-> Utf8(cps[i])])

\* token_name and token_symbol of bridgeParams.
BridgeTokenFields(tokenMetadata) ==
    [ok |-> TRUE,
     token_name |-> slice(tokenMetadata.name, 0, 32),
     token_symbol |-> slice(tokenMetadata.symbol, 0, 8)]

\* Token names and symbols: n times one character (a, e-acute, the euro sign),
\* and emoji (a surrogate pair each) after zero or one letter.
MaxNameLength == 34
MaxSymbolLength == 9

Repeat(units, n) == Concat([i \in 1..n |-> units])

Strings(n) ==
    {Repeat(<<c>>, k) : c \in {97, 233, 8364}, k \in 0..n}
    \cup {Repeat(<<55357, 56832>>, k) : k \in 1..(n \div 2)}
    \cup {<<97>> \o Repeat(<<55357, 56832>>, k) : k \in 1..(n \div 2)}

MetadataInputs ==
    {[kind |-> "TokenMetadata", data |-> [name |-> n, symbol |-> s]] :
        n \in {x \in Strings(MaxNameLength) : Len(x) >= 30},
        s \in {x \in Strings(MaxSymbolLength) : Len(x) >= 6}}

InitPayload ==
    /\ scenario = BridgeScenario
    /\ accounts = LedgerOf(scenario)
    /\ call = Locals0
    /\ changes = 0
    /\ tickets = [t \in TicketPDAs |-> "None"]
    /\ messages = [t \in TicketPDAs |-> 0]
    /\ attempts = NoAttempts
    /\ buffer \in MetadataInputs
    /\ decoded = NotDecoded
    /\ hook = NoHook
    /\ inits = NoInits
    /\ polling = NoPolling

\* The bridge function builds bridgeParams from the token metadata.
BuildBridgeParams ==
    /\ decoded = NotDecoded
    /\ decoded' = BridgeTokenFields(buffer.data)
    /\ UNCHANGED <<accounts, scenario, resolverVars, bridgeVars, buffer>>

NextPayload == BuildBridgeParams

SpecPayload == InitPayload /\ [][NextPayload]_vars

-----------------------------------------------------------------------------
(* Properties of the bridge attempts                                       *)

\* The attempt has got past the confirmation of its lock operation.
PastLock(a) ==
    \/ attempts[a].pc \in {"sendBridge", "confirmBridge", "getTransaction", "done"}
    \/ attempts[a].bridgeSubmits > 0

\* C1: an attempt builds and submits its bridge operation only when its lock
\* operation succeeded on the ledger; an attempt whose lock operation failed
\* does not get past the lock.
C1_BridgeOnlyAfterLock ==
    \A a \in Attempts : PastLock(a) => attempts[a].lockStatus = "ok"

C3_ResultOnlyOnSuccess ==
    \A a \in Attempts :
        attempts[a].pc = "done" =>
            attempts[a].lockStatus = "ok" /\ attempts[a].bridgeStatus = "ok"

\* The parameters the send account resolver is called with for an owner's
\* bridge operation: the store as sender, the destination and the receiver.
SendParams(owner) ==
    [payer |-> owner, sender |-> deriveStorePDA, dstEid |-> EID_ETHEREUM,
     receiver |-> PeerAddress]

\* C4: the account list attached to a bridge operation is the list
\* getSendAccounts returns for the store, the destination and the receiver.
C4_AttachedIsResolved ==
    \A a \in Attempts :
        attempts[a].pc = "sendBridge" =>
            LET resolved == getSendAccounts(accounts, SendParams(attempts[a].owner))
            IN  /\ resolved.ok
                /\ RemainingAccounts(attempts[a].owner) = resolved.list

-----------------------------------------------------------------------------
(* Properties of getSendAccounts                                           *)

\* The call has returned an account list.
Resolved == call.pc = "done" /\ call.result.ok

\* The two send configs have been merged.
Merged ==
    \/ call.pc \in {"await2", "await3", "await4"}
    \/ call.pc = "done" /\ call.executor # NoKey

\* The effective library as the library pointers on the ledger determine it.
ScenarioLib ==
    IF scenario.sendLib.messageLib # DEFAULT_MESSAGE_LIB
    THEN scenario.sendLib.messageLib
    ELSE scenario.defaultLib.messageLib

LibrariesConfigured == scenario.sendLib.present /\ scenario.defaultLib.present

NotSentinel(k) == k # DEFAULT_MESSAGE_LIB

\* C5: a validated-path result for R merged required and O merged optional
\* validators has 10 + 8 + 4 + 4*(R+O) entries: the endpoint entries, the
\* validated-path entries, the relayer entries, then one group of four per
\* validator, required validators first, in the order of the merged arrays and
\* with repeated validators repeated.
C5_ValidatedOrdering ==
    (Resolved /\ call.msgLib # deriveSimpleMessageLib) =>
        LET list == call.result.list
            R == Len(call.requiredDvns)
            O == Len(call.optionalDvns)
        IN  /\ Len(list) = 10 + 8 + 4 + 4 * (R + O)
            /\ list[1].pubkey = ENDPOINT_PROGRAM_ID
            /\ list[10].pubkey = ENDPOINT_PROGRAM_ID
            /\ list[11].pubkey = deriveUlnSettings
            /\ list[18].pubkey = ULN_PROGRAM_ID
            /\ list[19].pubkey = EXECUTOR_PROGRAM_ID
            /\ \A i \in 1..R : list[22 + 4 * (i - 1) + 2].pubkey = call.requiredDvns[i]
            /\ \A i \in 1..O :
                    list[22 + 4 * (R + i - 1) + 2].pubkey = call.optionalDvns[i]

C5_Witness ==
    /\ Resolved
    /\ call.requiredDvns = <<V2, V2>>
    /\ call.optionalDvns = <<V3>>
    /\ Len(call.result.list) = 34

\* C6: the effective library is the per-sender pointer unless that is the
\* sentinel, and then the default pointer; the library-info entry and the
\* direct/validated branch follow the effective library.
C6_EffectiveLibrary ==
    (call.pc \notin {"start", "quoted"} /\ LibrariesConfigured) =>
        /\ call.msgLib = ScenarioLib
        /\ Resolved =>
            /\ call.result.list[6].pubkey = deriveMessageLibraryInfo(ScenarioLib)
            /\ (Len(call.result.list) = 12) <=> (ScenarioLib = deriveSimpleMessageLib)

C6_Witness ==
    /\ Resolved
    /\ scenario.sendLib.messageLib = DEFAULT_MESSAGE_LIB
    /\ scenario.defaultLib.messageLib = deriveUlnMessageLib
    /\ call.msgLib = deriveUlnMessageLib

\* C7: when either library-pointer account is absent from the first fetch,
\* the call fails with a library-not-initialized error and returns no list.
C7_LibraryNotConfigured ==
    (call.pc \notin {"start", "quoted"} /\ ~LibrariesConfigured) =>
        /\ call.pc = "done"
        /\ ~call.result.ok
        /\ call.result.error \in {"Send library config not initialized",
                                  "Default send library config not initialized"}

C7_Witness ==
    /\ call.pc = "done"
    /\ scenario.sendLib.present
    /\ ~scenario.defaultLib.present
    /\ call.result.error = "Default send library config not initialized"

\* C8: on the direct path the result is the ten endpoint entries, the direct
\* library account and the writable fee payer, whatever validated-path accounts
\* exist.
C8_DirectPath ==
    (call.pc = "done" /\ LibrariesConfigured /\ ScenarioLib = deriveSimpleMessageLib) =>
        LET p == ResolveParams
        IN  /\ call.result.ok
            /\ call.result.list =
                << [pubkey |-> ENDPOINT_PROGRAM_ID, isSigner |-> FALSE, isWritable |-> FALSE],
                   [pubkey |-> p.sender, isSigner |-> FALSE, isWritable |-> FALSE],
                   [pubkey |-> SIMPLE_MESSAGELIB_PROGRAM_ID, isSigner |-> FALSE,
                    isWritable |-> FALSE],
                   [pubkey |-> deriveSendLibraryConfig(p.sender, p.dstEid),
                    isSigner |-> FALSE, isWritable |-> FALSE],
                   [pubkey |-> deriveDefaultSendLibraryConfig(p.dstEid),
                    isSigner |-> FALSE, isWritable |-> FALSE],
                   [pubkey |-> deriveMessageLibraryInfo(ScenarioLib), isSigner |-> FALSE,
                    isWritable |-> FALSE],
                   [pubkey |-> deriveEndpointSettings, isSigner |-> FALSE,
                    isWritable |-> FALSE],
                   [pubkey |-> deriveNonce(p.sender, p.dstEid, p.receiver),
                    isSigner |-> FALSE, isWritable |-> TRUE],
                   [pubkey |-> deriveEventAuthority(ENDPOINT_PROGRAM_ID), isSigner |-> FALSE,
                    isWritable |-> FALSE],
                   [pubkey |-> ENDPOINT_PROGRAM_ID, isSigner |-> FALSE, isWritable |-> FALSE],
                   [pubkey |-> deriveSimpleMessageLib, isSigner |-> FALSE,
                    isWritable |-> FALSE],
                   [pubkey |-> p.payer, isSigner |-> FALSE, isWritable |-> TRUE] >>

C8_Witness ==
    /\ Resolved
    /\ Len(call.result.list) = 12
    /\ ~scenario.ulnPresent
    /\ ~scenario.defaultCfg.present
    /\ E1 \in scenario.missing

\* C9: the merged relayer is the default's when the per-sender config is absent
\* or its relayer is the sentinel, and the per-sender one otherwise.
C9_MergedRelayer ==
    Merged =>
        call.executor =
            IF scenario.overrideCfg.present
               /\ scenario.overrideCfg.executor # DEFAULT_MESSAGE_LIB
            THEN scenario.overrideCfg.executor
            ELSE scenario.defaultCfg.executor

C9_Witness ==
    /\ Merged
    /\ scenario.overrideCfg.present
    /\ scenario.overrideCfg.executor = DEFAULT_MESSAGE_LIB
    /\ call.executor = E1

\* C10: each validator array is overridden wholesale and on its own: an empty
\* per-sender array leaves the default array, a non-empty one replaces it by
\* its non-sentinel entries in their order.
C10_MergedValidators ==
    Merged =>
        \A field \in {"requiredDvns", "optionalDvns"} :
            call[field] =
                IF scenario.overrideCfg.present /\ Len(scenario.overrideCfg[field]) > 0
                THEN SelectSeq(scenario.overrideCfg[field], NotSentinel)
                ELSE scenario.defaultCfg[field]

C10_Witness ==
    /\ Merged
    /\ scenario.defaultCfg.requiredDvns = <<V2, V1>>
    /\ scenario.defaultCfg.optionalDvns = <<V3>>
    /\ scenario.overrideCfg.present
    /\ scenario.overrideCfg.requiredDvns = <<V1, DEFAULT_MESSAGE_LIB>>
    /\ scenario.overrideCfg.optionalDvns = <<>>
    /\ call.requiredDvns = <<V1>>
    /\ call.optionalDvns = <<V3>>

\* The per-sender array of the field is non-empty and holds only the sentinel.
SentinelOnly(field) ==
    /\ scenario.overrideCfg.present
    /\ Len(scenario.overrideCfg[field]) > 0
    /\ \A i \in 1..Len(scenario.overrideCfg[field]) :
            scenario.overrideCfg[field][i] = DEFAULT_MESSAGE_LIB

\* C11: a per-sender validator array made of sentinel entries only leaves the
\* default array of that field in force.
C11_SentinelOnlyInherits ==
    Merged =>
        \A field \in {"requiredDvns", "optionalDvns"} :
            SentinelOnly(field) => call[field] = scenario.defaultCfg[field]

\* The call has returned the account list of the validated path.
ResolvedValidated == Resolved /\ call.msgLib # deriveSimpleMessageLib

\* C12: the four relayer entries of a validated-path result are the owner of
\* the fetched relayer config account, the merged relayer config account itself
\* (writable), the owner of the relayer's fee oracle and the fee oracle decoded
\* from the relayer config.
C12_RelayerEntries ==
    ResolvedValidated =>
        LET list == call.result.list
            executorBuf == getAccountInfo(accounts, call.executor)
        IN  /\ list[19] = AccountMeta(executorBuf.owner, FALSE, FALSE)
            /\ list[20] = AccountMeta(call.executor, FALSE, TRUE)
            /\ list[21] = AccountMeta(PriceFeedProgram(call.priceFeedBufs[1]), FALSE, FALSE)
            /\ list[22] = AccountMeta(call.executorConfig.priceFeed, FALSE, FALSE)

\* The merged validators of the call, required ones first.
CallDvns == DvnsKey(call.requiredDvns, call.optionalDvns)

\* C13: the group of the i-th merged validator in a validated-path result is
\* the owner of the validator's config account as fetched, the config account
\* itself (writable), the owner of its fee oracle and the fee oracle decoded
\* from the validator's config; none of the four is a signer.
C13_ValidatorGroups ==
    ResolvedValidated =>
        \A i \in 1..Len(CallDvns) :
            LET list == call.result.list
                base == 22 + 4 * (i - 1)
                dvnConfigBuf == getAccountInfo(accounts, CallDvns[i])
            IN  /\ list[base + 1] = AccountMeta(dvnConfigBuf.owner, FALSE, FALSE)
                /\ list[base + 2] = AccountMeta(CallDvns[i], FALSE, TRUE)
                /\ list[base + 3] =
                        AccountMeta(PriceFeedProgram(call.priceFeedBufs[i + 1]), FALSE, FALSE)
                /\ list[base + 4] = AccountMeta(call.dvnConfigs[i].priceFeed, FALSE, FALSE)
                /\ changes = 0 =>
                        call.dvnConfigs[i].priceFeed =
                            deserializeDvnConfig(dvnConfigBuf.data).priceFeed

\* A result with two validators, the first one's config owned by a program
\* other than the well-known validator program.
C13_Witness ==
    /\ ResolvedValidated
    /\ CallDvns = <<V1, V3>>
    /\ call.result.list[23].pubkey = OTHER_PROGRAM_ID
    /\ call.result.list[27].pubkey = DVN_PROGRAM_ID
    /\ call.result.list[28] = AccountMeta(V3, FALSE, TRUE)

\* The errors that report a missing account of the validated path.
NotInitializedErrors ==
    {"ULN send library not initialized", "Executor not initialized", "DVN not initialized",
     "DVN config account not found"}

\* The accounts the validated path requires to exist, once the configs are merged.
MustExist ==
    {deriveUlnMessageLib, deriveUlnDefaultSendConfig(ResolveParams.dstEid), call.executor}
        \cup {CallDvns[i] : i \in 1..Len(CallDvns)}

\* C14: on the validated path a call that returned a list found every account
\* it requires, and a call that failed for a missing account reports a
\* not-initialized error naming an account that is missing.
C14_MissingAccountNamed ==
    (call.pc = "done" /\ LibrariesConfigured /\ call.msgLib # deriveSimpleMessageLib) =>
        /\ call.result.ok => MustExist \subseteq DOMAIN accounts
        /\ (~call.result.ok /\ call.result.error \in NotInitializedErrors) =>
                /\ call.result.key # NoKey
                /\ call.result.key \notin DOMAIN accounts
        /\ ~call.result.ok => call.result.error \in NotInitializedErrors \cup {"RangeError"}

\* C15: a missing fee oracle, the relayer's or a validator's, does not make
\* the call fail: the entry of its owner is the placeholder program, the fee
\* oracle itself is still listed and the list is as long as with the fee
\* oracle present; after the merge the call fails only for a missing account
\* among those required to exist.
C15_MissingFeeOracle ==
    /\ ResolvedValidated =>
            /\ Len(call.result.list) = 22 + 4 * Len(CallDvns)
            /\ MustExist \subseteq DOMAIN accounts
            /\ \A j \in 1..(1 + Len(CallDvns)) :
                    LET feed == IF j = 1 THEN call.executorConfig.priceFeed
                                ELSE call.dvnConfigs[j - 1].priceFeed
                        buf == call.priceFeedBufs[j]
                    IN  /\ call.result.list[18 + 4 * (j - 1) + 3].pubkey =
                                IF buf.exists THEN buf.owner ELSE DEFAULT_MESSAGE_LIB
                        /\ call.result.list[18 + 4 * (j - 1) + 4].pubkey = feed
                        /\ buf.exists <=> feed \in DOMAIN accounts
    /\ (call.pc = "done" /\ Merged /\ ~call.result.ok) =>
            ~(MustExist \subseteq DOMAIN accounts)

\* A result whose relayer fee oracle exists and whose validator fee oracle is
\* missing.
C15_Witness ==
    /\ ResolvedValidated
    /\ P2 \notin DOMAIN accounts
    /\ CallDvns = <<V1>>
    /\ call.result.list[21].pubkey = PRICE_FEED_PROGRAM_ID
    /\ call.result.list[25].pubkey = DEFAULT_MESSAGE_LIB
    /\ call.result.list[26].pubkey = P2

-----------------------------------------------------------------------------
(* Properties of the deserializers                                         *)

\* The deserializer has run on the buffer.
DecodedBuffer == decoded # NotDecoded

\* The length of a record of the kind whose arrays are all empty: the fixed
\* fields up to and including the trailing 32-byte identifier.
MinFixedLength(kind) ==
    CASE kind = "SendLibraryConfig" -> 8 + 32
      [] kind = "SendConfig" -> 8 + 1 + 8 + 3 + 4 + 4 + 4 + 32
      [] kind = "ExecutorConfig" -> 8 + 1 + 32 + 5 * 4 + 1 + 2 + 32
      [] kind = "DvnConfig" -> 8 + 4 + 1 + 4 + 1 + 4 + 4 + 1 + 4 + 4 + 32

\* The buffer is a well-formed record whose trailing 32-byte identifier is cut short.
TrailingIdCutShort ==
    \E w \in WellFormed :
        /\ w.kind = buffer.kind
        /\ Len(w.data) - PUBLIC_KEY_LENGTH <= Len(buffer.data)
        /\ Len(buffer.data) < Len(w.data)
        /\ buffer = Prefix(w, Len(buffer.data))

TruncatedRecord == Len(buffer.data) < MinFixedLength(buffer.kind) \/ TrailingIdCutShort

\* C16: decoding a buffer that is shorter than the record's minimum fixed-field
\* length, or whose trailing 32-byte identifier is cut short, fails with a
\* decode error: no identifier is returned from fewer than 32 bytes.
C16_TruncatedRejected == (DecodedBuffer /\ TruncatedRecord) => ~decoded.ok

\* The ends of the arrays of the buffer's record, each computed from its 4-byte
\* count as far as the counts can be read.
ArrayEnds ==
    LET data == buffer.data
    IN  CASE buffer.kind = "SendConfig" ->
                LET required == SkipArray(data, 20, 32)
                IN  {required, SkipArray(data, required, 32)}
          [] buffer.kind = "ExecutorConfig" ->
                LET allowList == SkipArray(data, 8 + 1 + 32, 32)
                    denyList == SkipArray(data, allowList, 32)
                    admins == SkipArray(data, denyList, 32)
                    executors == SkipArray(data, admins, 32)
                IN  {allowList, denyList, admins, executors, SkipArray(data, executors, 32)}
          [] buffer.kind = "DvnConfig" ->
                LET signers == SkipArray(data, 8 + 4 + 1, 64)
                    allowList == SkipArray(data, IF signers < 0 THEN -1 ELSE signers + 1, 32)
                    denyList == SkipArray(data, allowList, 32)
                    msglibs == SkipArray(data, IF denyList < 0 THEN -1 ELSE denyList + 1, 32)
                IN  {signers, allowList, denyList, msglibs, SkipArray(data, msglibs, 32)}
          [] OTHER -> {}

\* Some array's count implies a read past the end of the buffer.
CountPastEnd == \E end \in ArrayEnds : end > Len(buffer.data)

\* C17: when the 4-byte count of any array implies a read past the end of the
\* buffer the decoding fails with a decode error; the send config decoder never
\* returns identifiers built from positions at or beyond the end of the buffer.
C17_OvercountRejected == (DecodedBuffer /\ CountPastEnd) => ~decoded.ok

\* C18: a well-formed send config buffer decodes to exactly its required
\* validator identifiers in order, its optional validator identifiers in order
\* and its relayer identifier.
C18_WellFormedSendConfig ==
    \A cfg \in DecodeSendConfigs :
        (DecodedBuffer /\ buffer = [kind |-> "SendConfig", data |-> EncodeSendConfig(cfg)])
            => decoded = [ok |-> TRUE, executor |-> cfg.executor,
                          requiredDvns |-> cfg.requiredDvns,
                          optionalDvns |-> cfg.optionalDvns]

\* One required validator, no optional validator and a relayer have been decoded.
C18_Witness ==
    /\ buffer = [kind |-> "SendConfig", data |-> EncodeSendConfig(SendConfig(E2, <<V1>>, <<>>))]
    /\ decoded = [ok |-> TRUE, executor |-> E2, requiredDvns |-> <<V1>>, optionalDvns |-> <<>>]

-----------------------------------------------------------------------------
(* Properties of the submissions of a bridge attempt                       *)

\* A submission of the attempt was rejected, or landed and failed on the ledger.
SubmissionFailed(a) ==
    \/ attempts[a].pc = "failed"
    \/ attempts[a].lockStatus = "err"
    \/ attempts[a].bridgeStatus = "err"

\* The step submits an operation of the attempt.
Submits(a) ==
    \/ attempts'[a].lockSubmits > attempts[a].lockSubmits
    \/ attempts'[a].bridgeSubmits > attempts[a].bridgeSubmits

\* C19: within one bridge attempt the lock operation is submitted at most once
\* and the bridge operation at most once, and after a submission that failed or
\* was confirmed as failed the attempt makes no further submission.
C19_NoFurtherSubmission ==
    [][\A a \in Attempts :
            /\ attempts'[a].lockSubmits <= 1
            /\ attempts'[a].bridgeSubmits <= 1
            /\ SubmissionFailed(a) => ~Submits(a)]_vars

-----------------------------------------------------------------------------
(* Properties of useBridge().bridge                                        *)

\* The step submits the lock operation of an attempt.
SubmitsLock == \E a \in Attempts : attempts[a].pc = "idle" /\ attempts'[a].pc # "idle"

\* The vault initialization that bridge triggered completed successfully.
InitCompleted == hook.init = "ok" /\ hook.initResult = "signature"

\* C20: useBridge().bridge submits the lock operation only when the status
\* check reported the vault as existing or the vault initialization it
\* triggered completed successfully; when the vault is absent and its
\* initialization fails no lock is submitted.
C20_LockOnlyWithVault == [][SubmitsLock => (hook.exists \/ InitCompleted)]_vars

\* The step is the status check of bridge.
ChecksVault == hook.pc = "checkStatus" /\ hook'.pc # "checkStatus"

\* C22: checkVaultStatus never fails and is read-only: it reports exists = false
\* when the vault account is absent and exists = true when it is present on the
\* ledger, and changes no ledger state.
C22_StatusReportsLedger ==
    [][ChecksVault => (hook'.pc \in {"execute", "initVault"}
                        /\ hook'.exists = VaultOnLedger /\ accounts' = accounts
                        /\ tickets' = tickets /\ messages' = messages)]_vars

\* C23: after the bridge submission is confirmed, a failure or an empty answer
\* of the transaction-details lookup never turns the attempt into a failure:
\* the attempt returns its BridgeResult, with both submissions made and the
\* message identifier undefined unless the lookup found it.
C23_LookupNeverFatal ==
    [][\A a \in Attempts :
            (attempts[a].pc = "getTransaction" /\ attempts'[a] # attempts[a])
                => /\ attempts'[a].pc = "done"
                   /\ attempts'[a].ticketId = attempts[a].ticketId
                   /\ attempts'[a].lockSubmits = 1 /\ attempts'[a].bridgeSubmits = 1
                   /\ attempts'[a].bridgeStatus = attempts[a].bridgeStatus]_vars

\* A confirmed, successful bridge whose lookup found no message identifier has
\* returned its result.
C23_Witness ==
    \E a \in Attempts :
        /\ attempts[a].pc = "done" /\ attempts[a].bridgeStatus = "ok" /\ ~attempts[a].guid
        /\ attempts[a].lockSubmits = 1 /\ attempts[a].bridgeSubmits = 1

-----------------------------------------------------------------------------
(* Properties of the bridge payload                                        *)

IsPrefix(a, b) == Len(a) <= Len(b) /\ a = SubSeq(b, 1, Len(a))

\* C24: for every token name and symbol, multi-byte characters included, the
\* payload carries a name of at most 32 bytes and a symbol of at most 8 bytes,
\* each a prefix of the original.
C24_FieldsWithinByteLimits ==
    DecodedBuffer =>
        /\ Len(Utf8Encode(decoded.token_name)) <= 32
        /\ Len(Utf8Encode(decoded.token_symbol)) <= 8
        /\ IsPrefix(Utf8Encode(decoded.token_name), Utf8Encode(buffer.data.name))
        /\ IsPrefix(Utf8Encode(decoded.token_symbol), Utf8Encode(buffer.data.symbol))

-----------------------------------------------------------------------------
(* Properties of the executor and DVN config deserializers                 *)

\* C25: for every well-formed executor config and DVN config buffer the decoded
\* price feed is exactly the 32 bytes that follow all preceding fields, every
\* array being skipped as 4 + count * elementSize bytes (64-byte signers,
\* 32-byte elements otherwise), for all combinations of array lengths.
C25_PriceFeedAfterArrays ==
    \A lens \in ArrayLengths, pf \in PriceFeeds :
        DecodedBuffer =>
            /\ buffer = [kind |-> "ExecutorConfig", data |-> EncodeExecutorArrays(lens, pf)]
                    => decoded = [ok |-> TRUE, priceFeed |-> pf]
            /\ buffer = [kind |-> "DvnConfig", data |-> EncodeDvnArrays(lens, pf)]
                    => decoded = [ok |-> TRUE, priceFeed |-> pf]

\* A DVN config with one signer and one element in every other array has been
\* decoded to its price feed.
C25_Witness ==
    LET pf == <<2>> \o Zeros(PUBLIC_KEY_LENGTH - 1)
    IN  /\ buffer = [kind |-> "DvnConfig", data |-> EncodeDvnArrays([i \in 1..5 |-> 1], pf)]
        /\ Len(buffer.data) = 8 + 4 + 1 + (4 + 64) + 1 + 4 * (4 + 32) + 1 + 32
        /\ decoded = [ok |-> TRUE, priceFeed |-> pf]

-----------------------------------------------------------------------------
(* Properties of the validator groups under a changing ledger              *)

\* The states the config account of a validator has had on the ledger during
\* the call: the one of the scenario and, for the accounts other parties
\* rewrite, the rewritten one.
SnapshotsOf(k) ==
    (IF k \in DOMAIN LedgerOf(scenario) THEN {LedgerOf(scenario)[k]} ELSE {})
    \cup (IF k \in ChangeKeys
          THEN {Account(OTHER_PROGRAM_ID, EncodeDvnConfig(2, <<>>, P1))} ELSE {})

\* C26: in every validator group of a validated-path result the validator
\* program (the owner of the config account) and the fee-oracle account are
\* taken from one and the same fetched snapshot of the validator's config
\* account, even when the account changes between the resolver's fetches.
C26_GroupFromOneSnapshot ==
    ResolvedValidated =>
        \A i \in 1..Len(CallDvns) :
            \E s \in SnapshotsOf(CallDvns[i]) :
                /\ call.result.list[22 + 4 * (i - 1) + 1].pubkey = s.owner
                /\ call.result.list[22 + 4 * (i - 1) + 4].pubkey =
                        deserializeDvnConfig(s.data).priceFeed

-----------------------------------------------------------------------------
(* Properties of the recipient of a bridge attempt                         *)

\* The character is a hexadecimal digit.
IsHexDigit(c) == c \in (48..57) \cup (65..70) \cup (97..102)

\* The address is an even number of hexadecimal digits.
ValidHex(chars) == Len(chars) % 2 = 0 /\ \A i \in 1..Len(chars) : IsHexDigit(chars[i])

\* The recipient cannot be encoded into the 32-byte recipient field.
Malformed(recipientAddress) ==
    \/ ~ValidHex(CleanAddress(recipientAddress))
    \/ Len(CleanAddress(recipientAddress)) \div 2 > 20

\* C27: a bridge attempt whose recipient address cannot be encoded into the
\* 32-byte recipient field fails before the lock operation is submitted.
C27_MalformedRecipientFailsFirst == [][Malformed(hook.recipient) => ~SubmitsLock]_vars

-----------------------------------------------------------------------------
(* Properties of getQuoteAccounts                                          *)

\* C28: for the same ledger state and parameters getQuoteAccounts returns the
\* identifiers of getSendAccounts with the same isSigner flags, in the same
\* order and of the same length, with isWritable false on every entry, and it
\* fails exactly when getSendAccounts fails.
C28_QuoteMirrorsSend ==
    [][(call.pc = "done" /\ call'.pc = "quoted") =>
        LET quote == call'.result
            send == call.result
        IN  /\ quote.ok = send.ok
            /\ ~send.ok => quote = send
            /\ send.ok =>
                /\ Len(quote.list) = Len(send.list)
                /\ \A i \in 1..Len(send.list) :
                        /\ quote.list[i].pubkey = send.list[i].pubkey
                        /\ quote.list[i].isSigner = send.list[i].isSigner
                        /\ ~quote.list[i].isWritable]_vars

\* A quote of the 26 entries of a validated-path send list, which has writable
\* entries, none of them writable in the quote.
C28_Witness ==
    /\ call.pc = "quoted" /\ call.result.ok /\ Len(call.result.list) = 26
    /\ call.msgLib # deriveSimpleMessageLib
    /\ \A i \in 1..26 : ~call.result.list[i].isWritable

-----------------------------------------------------------------------------
(* Properties of the in-progress flags of useBridge                         *)

\* The step settles the call of bridge, a call of initVault that has set its
\* flag (the one bridge made or the one made on its own), a call of checkVault
\* (made by either initVault or on its own).
BridgeSettles == hook.pc \notin {"null", "settled"} /\ hook'.pc \in {"null", "settled"}
InitVaultSettles ==
    \/ hook.pc \in {"initVault", "confirmInit", "checkVault"} /\ hook'.pc = "execute"
    \/ hook.own \in {"initVault", "confirmInit", "checkVault"} /\ hook'.own = "settled"
CheckVaultSettled ==
    \/ hook.pc = "checkVault" /\ hook'.pc # "checkVault"
    \/ hook.own = "checkVault" /\ hook'.own # "checkVault"
    \/ hook.check = "running" /\ hook'.check # "running"

\* The step is the early return of bridge or of initVault for a missing wallet.
EarlyReturn ==
    \/ hook.pc = "start" /\ hook'.pc = "null"
    \/ hook.own = "none" /\ hook'.own = "settled"

\* No call of the hook is running.
NoCallRunning ==
    /\ hook.pc \in {"start", "null", "settled"}
    /\ hook.own \in {"none", "settled"}
    /\ hook.check # "running"

\* C29: whenever a call of bridge, initVault or checkVault has settled, on
\* success, on a thrown error or on the early return for a missing wallet, the
\* in-progress flag it set (bridging, initializingVault, checkingVault) is
\* false again; the early return sets and leaves no flag; and no flag is true
\* once no call is running.
C29_FlagsClearedOnSettle ==
    [][/\ BridgeSettles => ~hook'.bridging
       /\ InitVaultSettles => ~hook'.initializingVault
       /\ CheckVaultSettled => ~hook'.checkingVault
       /\ EarlyReturn =>
            /\ hook'.bridging = hook.bridging
            /\ hook'.initializingVault = hook.initializingVault
            /\ hook'.checkingVault = hook.checkingVault
       /\ NoCallRunning' =>
            ~hook'.bridging /\ ~hook'.initializingVault /\ ~hook'.checkingVault]_vars

\* bridge has settled with null after an attempt that failed behind a vault
\* initialization that ended in an error, and the initVault and the checkVault
\* called on their own have settled.
C29_Witness ==
    /\ hook.pc = "settled"
    /\ hook.initResult = "null"
    /\ attempts[1].pc = "failed"
    /\ hook.check = "resolved"
    /\ hook.own = "settled" /\ hook.ownResult = "null"
    /\ ~hook.bridging /\ ~hook.initializingVault /\ ~hook.checkingVault

\* bridge has settled with a result after initVault and checkVault settled.
C29_WitnessSuccess ==
    /\ hook.pc = "settled"
    /\ hook.initResult = "signature"
    /\ hook.vaultStatus # "none"
    /\ attempts[1].pc = "done"
    /\ ~hook.bridging /\ ~hook.initializingVault /\ ~hook.checkingVault

-----------------------------------------------------------------------------
(* Properties of status polling                                             *)

\* C30: one run of startStatusPolling calls generateTicketFromTEE at most once
\* for the ticket payment and appends at most one completed ticket, whatever
\* status responses are in flight when the first complete and successful one
\* arrives.
C30_GeneratesAtMostOnce ==
    \A i \in TicketIndexes, r \in Runs :
        /\ polling.ticket[i].generations[r] <= 1
        /\ polling.ticket[i].appended[r] <= 1

\* The response that calls generateTicketFromTEE leaves no interval registered
\* for the index.
C30_TimerCleared ==
    [][\A i \in TicketIndexes :
         (\E r \in Runs : polling'.ticket[i].generations[r] > polling.ticket[i].generations[r])
            => polling'.ticket[i].timer = 0]_vars

\* A complete and successful response has arrived at the only run of the index
\* while another request of that run was in flight.
C30_Overlap ==
    \E i \in TicketIndexes :
        /\ polling.ticket[i].runs = 1
        /\ polling.ticket[i].generations[1] = 1
        /\ polling.ticket[i].inFlight[1] > 0

====
